---- MODULE Spec2Model ----
(***************************************************************************)
(* Model of the per-session streaming pipeline of the voice agent          *)
(* (src/main.py, src/services/murf_websocket_service.py, llm_service.py).  *)
(*                                                                         *)
(* One client socket bound to one session id.  The asyncio event loop is   *)
(* cooperative: a coroutine runs without interruption from one suspending  *)
(* await to the next, so every action below is one such segment of a       *)
(* coroutine, and everything the code does between two suspensions         *)
(* (synchronous calls into process_session_queue and into the entry of     *)
(* handle_llm_streaming included) is part of the same action.              *)
(*                                                                         *)
(* Each final transcript is delivered to transcription_callback in a task  *)
(* of its own, so callbacks of one socket overlap.  Time advances in steps *)
(* of TickSeconds; timestamps are kept as ages (seconds elapsed), which    *)
(* saturate at AgeCap because the code compares them with 2, 15, 30 and    *)
(* 45 only.                                                                *)
(***************************************************************************)
EXTENDS Integers, Sequences, FiniteSets, TLC

\* ----------------------------------------------------------------- bounds
\* final transcripts delivered to the socket in one run: with neither clock
\* nor faults (SpecQueue, and SpecBacklog whose clock runs only while the LLM
\* is slow), with the clock (Spec), with the faults (SpecFaults)
MaxArrivals == 5
TimedArrivals == 2
FaultArrivals == 3
\* with a client that goes away silently (SpecSend)
SendArrivals == 1
\* persona and web-search confirmations sent to the client (SpecPersona)
MaxUpdates == 1
\* text chunks the LLM adapter yields for one response (at least one)
MaxChunks == 1
\* audio frames without the final marker that upstream sends for one context
MaxAudio == 1
\* times the upstream TTS socket closes in one run
MaxUpstreamCloses == 1
\* calls into the shared MurfWebSocketService in one run (SpecAdapter)
MaxCallers == 2
\* seconds of one clock step
TickSeconds == 30
\* ages saturate here (the largest threshold the code compares with is 45)
AgeCap == 60

\* ------------------------------------------------------- program constants
DuplicateWindow == 15
ExactDuplicateWindow == 2
StuckThreshold == 30
SweepPeriod == 30
TotalTimeoutSeconds == 45
RecvTimeoutSeconds == 30
MaxTimeouts == 2
MinTranscriptLen == 3

\* ---------------------------------------------------------------- strings
\* A Python str is a sequence of one-character strings.
UpperCase == {"H", "Y", "W"}
LowerCase == {"h", "e", "y", "o", "u", "w", "i", "a", "b"}
Punctuation == {"!", "?"}
WhiteSpace == {" "}
Chars == UpperCase \cup LowerCase \cup Punctuation \cup WhiteSpace

\* str.lower() on one character
Lower(c) ==
  CASE c = "H" -> "h"
    [] c = "Y" -> "y"
    [] c = "W" -> "w"
    [] OTHER -> c

Digits == {"7"}
Tab == "\t"

\* \w of the re module: letters, digits, underscore
IsWordChar(c) == c \in UpperCase \cup LowerCase \cup Digits \cup {"_"}

\* \s of the re module and the separators of str.split()
IsSpace(c) == c \in WhiteSpace \cup {Tab}

\* re.sub(r'[^\w\s]', ' ', text.lower())
SubPunct(s) ==
  [i \in 1..Len(s) |->
     LET c == Lower(s[i]) IN IF IsWordChar(c) \/ IsSpace(c) THEN c ELSE " "]

\* str.split(): the maximal runs of non-whitespace characters
RECURSIVE SplitFrom(_, _, _)
SplitFrom(s, i, cur) ==
  IF i > Len(s)
    THEN IF cur = <<>> THEN <<>> ELSE <<cur>>
    ELSE IF IsSpace(s[i])
           THEN (IF cur = <<>> THEN <<>> ELSE <<cur>>) \o SplitFrom(s, i + 1, <<>>)
           ELSE SplitFrom(s, i + 1, Append(cur, s[i]))

Split(s) == SplitFrom(s, 1, <<>>)

\* ' '.join(words)
RECURSIVE Join(_)
Join(ws) ==
  IF ws = <<>> THEN <<>>
  ELSE IF Len(ws) = 1 THEN ws[1]
  ELSE ws[1] \o <<" ">> \o Join(Tail(ws))

\* str.strip()
RECURSIVE LStrip(_)
LStrip(s) == IF s # <<>> /\ IsSpace(s[1]) THEN LStrip(Tail(s)) ELSE s

RECURSIVE RStrip(_)
RStrip(s) ==
  IF s # <<>> /\ IsSpace(s[Len(s)]) THEN RStrip(SubSeq(s, 1, Len(s) - 1)) ELSE s

Strip(s) == LStrip(RStrip(s))

normalize_query_text(text) ==
  IF text = <<>> THEN <<>> ELSE Join(Split(SubPunct(text)))

\* The final transcripts the STT adapter may deliver.  The code compares
\* transcripts only through their normal forms, so the k-th transcript of a
\* run is either a text not heard before or a respelling (capitalised, with
\* punctuation) of an earlier one.
Fresh == << <<"h", "e", "y">>, <<"y", "o", "u">>, <<"w", "h", "o">>, <<"h", "o", "w">> >>

Upper(c) ==
  CASE c = "h" -> "H"
    [] c = "y" -> "Y"
    [] c = "w" -> "W"
    [] OTHER -> c

Respell(t) == <<Upper(t[1])>> \o Tail(t) \o <<"!">>

Utterances(k) ==
  IF k > Len(Fresh) THEN {}
  ELSE {Fresh[k]} \cup {Respell(Fresh[j]) : j \in 1..(k - 1)}

\* Transcripts of one or two letters, bare, padded, or with a blank between
\* the letters.
ShortTexts ==
  { <<"a">>, <<"h", "i">>, <<" ", "h", "i", " ">>, <<"a", " ", "b">> }

\* the final transcripts the STT adapter may deliver when the user also
\* mumbles
Heard(k) == Utterances(k) \cup ShortTexts

\* ------------------------------------------------------------------ state
VARIABLES
  sess,      \* the module-level dictionaries of main.py, at the session id,
             \* with the handler's current_persona and, as booleans, whether
             \* the globals llm_service and murf_websocket_service are set
             \* (the callback is run by the streaming STT service, which is
             \* therefore set whenever a transcript arrives)
  murf,      \* the fields of the shared MurfWebSocketService
  inv,       \* per final transcript: its callback / handle_llm_streaming frame
  narr,      \* final transcripts delivered so far
  wire,      \* frames sent to the client: per utterance, in order; at 0 the
             \* frames that belong to no utterance
  starts,    \* the utterances of the "llm_streaming_start" frames, in order
  conn,      \* "live": the socket is in manager.active_connections;
             \* "broken": it still is, but its client is gone and the next
             \* send_text on it raises; "gone": it has been removed
  dc,        \* per socket bound to the session id, the disconnect cleanup of
             \* its handler: "none", "wait", "done"
  sweep_age, \* seconds since periodic_safety_cleanup last ran the sweep
  sid,       \* the session id the handler of the client's socket holds: "s1",
             \* the session of sess, or "s2" after a session_id message
  co         \* the coroutines inside MurfWebSocketService, with its
             \* _recv_lock and the context ids uuid4 has produced

vars == <<sess, murf, inv, narr, wire, starts, conn, dc, sweep_age, sid, co>>

Ids == 1..MaxArrivals

\* the sockets bound to the session id: the one the client uses, and one left
\* over from an earlier page load whose handler has not finished yet
Sockets == {"this", "old"}

\* the calls into the shared MurfWebSocketService
Callers == 1..MaxCallers

\* states of the task created for process_tts
TaskDone == {"done_ok", "done_exc", "cancelled"}
TaskLive == {"start", "vc", "llm", "recv", "send_audio", "send_final"}

\* an age after one more clock step
Older(age) == IF age + TickSeconds > AgeCap THEN AgeCap ELSE age + TickSeconds

\* A dictionary without an entry for the session holds: <<>> where the values
\* are texts, 0 where they are invocation or context ids, -1 where they are
\* timestamps, NoBuffer for the response buffer.
NoBuffer == <<0>>

NoFrame ==
  [text |-> <<>>, pc |-> "none", caller |-> 0, acc |-> 0, tpc |-> "none",
   nto |-> 0, naudio |-> 0, tts_age |-> 0, recv_age |-> 0, cb_age |-> 0,
   clr |-> 0, site |-> "none", exc |-> FALSE,
   persona |-> "none", web_search_enabled |-> FALSE,
   cap_persona |-> "none", cap_web |-> FALSE, updates |-> 0,
   fallbacks |-> 0, old_task |-> 0]

InitSess ==
  [session_processing |-> FALSE,
   session_queues |-> <<>>,
   session_current_query |-> <<>>,
   session_response_played |-> FALSE,
   session_buffer_cleared |-> FALSE,
   session_tts_completed |-> FALSE,
   session_tts_active |-> FALSE,
   session_response_ids |-> 0,
   session_responses |-> NoBuffer,
   session_last_transcript |-> <<>>,
   session_last_time |-> -1,
   active_tts_tasks |-> 0,
   session_web_search |-> FALSE,
   current_persona |-> "developer",
   llm_service |-> TRUE,
   murf_websocket_service |-> TRUE]

InitMurf ==
  [is_connected |-> FALSE, closed |-> FALSE, closes |-> 0,
   active_contexts |-> {}, current_context_id |-> 0]

\* one call into the shared MurfWebSocketService: connect() or
\* stream_text_to_audio(), with the locals of the functions it is inside
NoCall ==
  [call |-> "none", pc |-> "idle", at |-> "none", context_id |-> 0,
   todo |-> {}, cur |-> 0, site |-> "none", limits |-> 0, retries |-> 0,
   timeout_count |-> 0, audio_received |-> FALSE, naudio |-> 0,
   got |-> {}, swallowed |-> {}]

\* _recv_lock: 0 when free, else the call that holds it; waiters are the
\* calls suspended in acquire(), in the order they arrived.  uuid counts the
\* context ids produced so far; the ids are 1, 2, ...  inbox holds the frames
\* the upstream has written to the socket and no recv() has returned yet, up
\* the requests the upstream has answered.  A call's got and swallowed are
\* the contexts of the audio frames it yielded to process_tts and of those
\* it read where it waited for an acknowledgement.
InitCo ==
  [recv_lock |-> 0, waiters |-> <<>>, uuid |-> 0, inbox |-> <<>>, up |-> {},
   f |-> [c \in Callers |-> NoCall]]

Init ==
  /\ sess = InitSess
  /\ murf = InitMurf
  /\ inv = [a \in Ids |-> NoFrame]
  /\ narr = 0
  /\ wire = [a \in 0..MaxArrivals |-> <<>>]
  /\ starts = <<>>
  /\ conn = "live"
  /\ dc = [s \in Sockets |-> "none"]
  /\ sweep_age = 0
  /\ sid = "s1"
  /\ co = InitCo

\* The state a coroutine segment works on, threaded through the calls it makes.
Bundle ==
  [s |-> sess, m |-> murf, inv |-> inv, wire |-> wire, starts |-> starts,
   conn |-> conn, sid |-> sid]

Commit(B) ==
  /\ sess' = B.s
  /\ murf' = B.m
  /\ inv' = B.inv
  /\ wire' = B.wire
  /\ starts' = B.starts
  /\ conn' = B.conn

\* send_personal_message without the removal of a socket whose send failed
SendUnsafe(B, type, a, x) ==
  IF B.conn = "live"
    THEN [B EXCEPT
            !.wire[a] = Append(@, [type |-> type, x |-> x]),
            !.starts = IF type = "llm_streaming_start" THEN Append(@, a) ELSE @]
    ELSE B

\* ConnectionManager.send_personal_message: a no-op for a socket that is not
\* in active_connections; send_text raises on a socket whose client is gone,
\* and the except clause removes the socket.
Send(B, type, a, x) ==
  IF B.conn = "live"
    THEN [B EXCEPT
            !.wire[a] = Append(@, [type |-> type, x |-> x]),
            !.starts = IF type = "llm_streaming_start" THEN Append(@, a) ELSE @]
    ELSE IF B.conn = "broken"
      THEN [B EXCEPT !.conn = "gone"]
    ELSE B

\* the response buffer: the ids of the invocations whose LLM chunks it holds,
\* one per chunk (<<>> is the empty string)
Buffer(a, n) == [i \in 1..n |-> a]

QueueTexts(S) == {S.session_queues[i].text : i \in 1..Len(S.session_queues)}

is_duplicate_query(S, query_text) ==
  LET normalized_query == normalize_query_text(query_text) IN
  \/ normalized_query = <<>>
  \/ /\ S.session_current_query # <<>>
     /\ normalize_query_text(S.session_current_query) = normalized_query
  \/ \E t \in QueueTexts(S) : normalize_query_text(t) = normalized_query
  \/ /\ S.session_last_transcript # <<>>
     /\ normalize_query_text(S.session_last_transcript) = normalized_query
     /\ S.session_last_time # -1
     /\ S.session_last_time < DuplicateWindow

\* text.lower().strip('.,!?;: '), punctuation to spaces, whitespace collapsed:
\* the comparison key of the exact-duplicate check inside handle_llm_streaming
StripSet == {".", ",", "!", "?", ";", ":", " "}

RECURSIVE LStripSet(_)
LStripSet(s) == IF s # <<>> /\ s[1] \in StripSet THEN LStripSet(Tail(s)) ELSE s

RECURSIVE RStripSet(_)
RStripSet(s) ==
  IF s # <<>> /\ s[Len(s)] \in StripSet
    THEN RStripSet(SubSeq(s, 1, Len(s) - 1)) ELSE s

Clean(text) ==
  LET lowered == [i \in 1..Len(text) |-> Lower(text[i])]
      stripped == LStripSet(RStripSet(lowered))
  IN IF stripped = <<>> THEN <<>> ELSE Join(Split(SubPunct(stripped)))

\* ------------------------------------------------------ coroutine segments
TaskRunning(B, t) == t # 0 /\ B.inv[t].tpc \in TaskLive

\* the task is left running
NoCancel(B, t) == B

\* task.cancel(): CancelledError is raised in process_tts at the await it is
\* suspended in; neither process_tts nor stream_text_to_audio catches it
\* (both catch Exception only), so the task ends cancelled.
CancelTask(B, t) == [B EXCEPT !.inv[t].tpc = "cancelled"]

RECURSIVE HEntry(_, _)
RECURSIVE PSQ(_, _, _)
RECURSIVE Cont(_, _, _)
RECURSIVE HComplete(_, _)
RECURSIVE Finally(_, _, _)
RECURSIVE HReturn(_, _, _)

\* handle_llm_streaming, from the processing flag to the await of the history
HStart(B, a) ==
  [B EXCEPT !.s.session_processing = TRUE,
            !.s.session_responses = <<>>,
            !.inv[a].pc = "db"]

\* handle_llm_streaming, from its first line to its first suspension
HEntry(B, a) ==
  IF is_duplicate_query(B.s, B.inv[a].text)
    THEN HReturn([B EXCEPT !.inv[a].pc = "done"], a, FALSE)
    ELSE
      LET B1 == [B EXCEPT !.s.session_response_played = FALSE,
                          !.s.session_buffer_cleared = FALSE,
                          !.s.session_tts_completed = FALSE,
                          !.s.session_tts_active = FALSE,
                          !.s.session_response_ids = a,
                          !.s.session_responses = <<>>,
                          !.s.session_current_query = B.inv[a].text]
          t == B.s.active_tts_tasks
      IN IF TaskRunning(B, t)
           THEN [CancelTask(B1, t) EXCEPT !.inv[a].pc = "cancel_wait",
                                          !.inv[a].old_task = t]
           ELSE HStart(B1, a)

\* the persona and the web-search flag in effect, instead of the queue item's
CurrentArgs(S, next_query) ==
  [persona |-> S.current_persona, web_search_enabled |-> S.session_web_search]

\* the persona and web_search_enabled arguments process_session_queue passes
\* to handle_llm_streaming for a queue item
QueuedArgs(S, next_query) ==
  [persona |-> next_query.persona,
   web_search_enabled |-> next_query.web_search_enabled]

\* process_session_queue returning after it dropped a duplicate, without
\* looking at the rest of the queue
PSQOnce(B, p, site) ==
  IF B.s.session_processing \/ B.s.session_queues = <<>>
    THEN Cont(B, p, site)
    ELSE
      LET next_query == Head(B.s.session_queues)
          B1 == [B EXCEPT !.s.session_queues = Tail(@)]
      IN IF is_duplicate_query(B1.s, next_query.text)
           THEN Cont([B1 EXCEPT !.inv[next_query.id].pc = "skipped"], p, site)
           ELSE HEntry([B1 EXCEPT
                          !.inv[next_query.id].pc = "entry",
                          !.inv[next_query.id].caller = p,
                          !.inv[p].pc = "psq",
                          !.inv[p].site = site], next_query.id)

\* process_session_queue, called by invocation p at call site `site`
PSQ(B, p, site) ==
  IF B.s.session_processing \/ B.s.session_queues = <<>>
    THEN Cont(B, p, site)
    ELSE
      LET next_query == Head(B.s.session_queues)
          B1 == [B EXCEPT !.s.session_queues = Tail(@)]
      IN IF is_duplicate_query(B1.s, next_query.text)
           THEN PSQ([B1 EXCEPT !.inv[next_query.id].pc = "skipped"], p, site)
           ELSE HEntry([B1 EXCEPT
                          !.inv[next_query.id].pc = "entry",
                          !.inv[next_query.id].persona =
                             QueuedArgs(B1.s, next_query).persona,
                          !.inv[next_query.id].web_search_enabled =
                             QueuedArgs(B1.s, next_query).web_search_enabled,
                          !.inv[next_query.id].caller = p,
                          !.inv[p].pc = "psq",
                          !.inv[p].site = site], next_query.id)

\* handle_llm_streaming after the process_session_queue call at `site` returned
Cont(B, p, site) ==
  CASE site = "guard" -> Finally(B, p, FALSE)
    [] site = "fb_ok" -> HComplete(B, p)
    [] site = "fb_fail" -> HComplete(Send(B, "session_reset", p, 0), p)
    [] site = "total" -> HComplete(B, p)
    [] site = "complete" -> Finally(Send(B, "session_reset", p, 0), p, FALSE)

\* handle_llm_streaming, completion notification and state reset
HComplete(B, a) ==
  LET B1 == Send(B, "llm_streaming_complete", a, B.s.session_response_ids)
      B2 == IF B1.s.session_responses # NoBuffer /\ ~B1.s.session_buffer_cleared
              THEN [B1 EXCEPT !.s.session_responses = NoBuffer]
              ELSE B1
      B3 == [B2 EXCEPT !.s.session_processing = FALSE,
                       !.s.session_current_query = <<>>,
                       !.s.session_response_played = FALSE,
                       !.s.session_buffer_cleared = FALSE,
                       !.s.session_tts_completed = FALSE,
                       !.s.session_tts_active = FALSE,
                       !.s.session_response_ids = 0]
  IN PSQ(B3, a, "complete")

\* the deletions that end the finally block of handle_llm_streaming: the
\* second `del session_response_played[session_id]` raises KeyError whenever
\* session_response_ids still has an entry, and the handler of that error
\* clears the processing flag and the task entry as well
FinallyDeletes(B, a, exc) ==
  LET keyerror == B.s.session_response_ids # 0
      S1 == [B.s EXCEPT !.session_last_transcript = <<>>,
                        !.session_last_time = -1,
                        !.session_responses = NoBuffer,
                        !.session_queues = <<>>,
                        !.session_current_query = <<>>,
                        !.session_response_played = FALSE,
                        !.session_buffer_cleared = FALSE,
                        !.session_tts_completed = FALSE,
                        !.session_tts_active = FALSE,
                        !.session_response_ids = 0]
      S2 == IF keyerror
              THEN [S1 EXCEPT !.session_processing = FALSE,
                              !.active_tts_tasks = 0]
              ELSE S1
      done == [NoFrame EXCEPT !.text = B.inv[a].text, !.pc = "done",
                              !.caller = B.inv[a].caller,
                              !.cb_age = B.inv[a].cb_age,
                              !.exc = exc,
                              !.persona = B.inv[a].persona,
                              !.web_search_enabled = B.inv[a].web_search_enabled,
                              !.cap_persona = B.inv[a].cap_persona,
                              !.cap_web = B.inv[a].cap_web,
                              !.fallbacks = B.inv[a].fallbacks,
                              !.old_task = B.inv[a].old_task]
  IN HReturn([B EXCEPT !.s = S2, !.inv[a] = done], a, exc)

\* the finally block, step 2: clear the adapter's current context
FinallyClear(B, a, exc) ==
  LET current_context == B.m.current_context_id IN
  IF current_context # 0 /\ B.m.is_connected /\ ~B.m.closed
    THEN [B EXCEPT !.inv[a].pc = "fin_clear",
                   !.inv[a].clr = current_context,
                   !.inv[a].exc = exc]
    ELSE FinallyDeletes(B, a, exc)

\* the finally block, step 1: cancel the session's active TTS task
Finally(B, a, exc) ==
  LET t == B.s.active_tts_tasks IN
  IF TaskRunning(B, t)
    THEN [CancelTask(B, t) EXCEPT !.inv[a].pc = "fin_cancel_wait",
                                  !.inv[a].exc = exc]
    ELSE FinallyClear(B, a, exc)

\* invocation a has ended (exc: with CancelledError): resume whoever awaited it
HReturn(B, a, exc) ==
  LET p == B.inv[a].caller IN
  IF p = 0
    THEN IF exc
           THEN B
         ELSE IF B.sid # "s1"
           THEN [B EXCEPT !.inv[a].cb_age = 0]
           ELSE [B EXCEPT !.s.session_last_transcript = B.inv[a].text,
                          !.s.session_last_time = B.inv[a].cb_age,
                          !.inv[a].cb_age = 0]
    ELSE IF exc
           THEN Finally(B, p, TRUE)
           ELSE Cont(B, p, B.inv[p].site)

\* handle_llm_streaming, the handler of a failed TTS stream when the fallback
\* failed too (or was not attempted)
HTotalFailure(B, a) ==
  LET B1 == Send(B, "tts_streaming_error", a, 0)
      B2 == IF B1.s.session_responses # NoBuffer
              THEN [B1 EXCEPT !.s.session_processing = FALSE,
                              !.s.session_responses = NoBuffer,
                              !.s.session_buffer_cleared = TRUE]
              ELSE [B1 EXCEPT !.s.session_processing = FALSE]
  IN PSQ(B2, a, "total")

\* handle_llm_streaming, `except Exception` around the TTS stream
HTtsError(B, a) ==
  LET current_response == B.s.session_responses IN
  IF current_response # NoBuffer /\ current_response # <<>>
     /\ ~B.s.session_response_played
    THEN [B EXCEPT !.inv[a].pc = "fb_error", !.inv[a].fallbacks = @ + 1]
    ELSE HTotalFailure(B, a)

\* the fallback request is made again
HTimeoutRetry(B, a) ==
  [B EXCEPT !.inv[a].pc = "fb_timeout", !.inv[a].fallbacks = @ + 1]

\* handle_llm_streaming, the handler of a fallback that failed after the
\* 45 s timeout
HTimeoutFailure(B, a) ==
  LET B1 == Send(B, "tts_streaming_timeout", a, 0)
      B2 == [B1 EXCEPT !.s.session_processing = FALSE,
                       !.s.session_responses = NoBuffer,
                       !.s.session_buffer_cleared = TRUE,
                       !.s.session_response_played = TRUE]
  IN PSQ(B2, a, "fb_fail")

\* handle_llm_streaming, `except asyncio.TimeoutError`
HTimeoutHandler(B, a) ==
  LET B1 == Send(B, "tts_timeout", a, 0)
      current_response == B1.s.session_responses
  IN IF B1.s.session_response_played \/ B1.s.session_buffer_cleared
          \/ current_response = NoBuffer \/ current_response = <<>>
       THEN HTimeoutFailure(B1, a)
       ELSE [B1 EXCEPT !.inv[a].pc = "fb_timeout", !.inv[a].fallbacks = @ + 1]

\* handle_llm_streaming, from "tts_streaming_start" to the wait on the task
HStartTts(B, a) ==
  [Send(B, "tts_streaming_start", a, 0) EXCEPT
     !.inv[a].pc = "wait_tts",
     !.inv[a].tpc = "start",
     !.inv[a].tts_age = 0,
     !.s.active_tts_tasks = a]

\* MurfWebSocketService._clear_all_contexts followed by the registration of
\* the new context in _send_voice_config
NewContext(m, context_id) ==
  [m EXCEPT !.active_contexts = {context_id}, !.current_context_id = context_id]

\* the frame of invocation a once nobody waits for its process_tts task any
\* more: the task's locals are gone
TaskGone(B, a) ==
  [B EXCEPT !.inv[a].tpc = "none", !.inv[a].acc = 0, !.inv[a].nto = 0,
            !.inv[a].naudio = 0, !.inv[a].tts_age = 0, !.inv[a].recv_age = 0]

\* MurfWebSocketService._connecting: a connect() call is awaiting the socket
Connecting == \E b \in Ids : inv[b].pc = "ensure"

\* the task of process_tts ends with an exception raised in or through
\* stream_text_to_audio
TaskRaise(B, a) == [B EXCEPT !.inv[a].tpc = "done_exc"]

\* only the LLM service is looked at
LlmKeyMissing(s) == ~s.llm_service

\* transcription_callback, "CHECK FOR API KEYS BEFORE PROCESSING"
KeysMissing(s) == ~s.llm_service \/ ~s.murf_websocket_service

\* ---------------------------------------------------------------- actions
\* transcription_callback for a final transcript
Arrive(u) ==
  /\ narr < MaxArrivals
  /\ sid = "s1"
  /\ dc["this"] = "none"
  /\ conn # "gone"
  /\ LET a == narr + 1
         final_text == Strip(u)
         B0 == [Bundle EXCEPT !.inv[a].text = final_text,
                              !.inv[a].cap_persona = sess.current_persona,
                              !.inv[a].cap_web = sess.session_web_search]
         B1 == IF Len(Strip(final_text)) < MinTranscriptLen
                 THEN [B0 EXCEPT !.inv[a].pc = "short"]
               ELSE IF KeysMissing(sess)
                 THEN Send([B0 EXCEPT !.inv[a].pc = "nokeys"],
                           "api_keys_required", a, 0)
               ELSE IF is_duplicate_query(sess, final_text)
                 THEN [B0 EXCEPT !.inv[a].pc = "rejected"]
               ELSE IF sess.session_processing
                 THEN LET B2 == [B0 EXCEPT
                                   !.s.session_queues =
                                      Append(@, [id |-> a, text |-> final_text,
                                                 persona |-> sess.current_persona,
                                                 web_search_enabled |->
                                                   sess.session_web_search]),
                                   !.inv[a].pc = "queued"]
                      IN Send(B2, "query_queued", a, Len(B2.s.session_queues))
               ELSE HEntry([B0 EXCEPT
                              !.inv[a].pc = "entry",
                              !.inv[a].persona = sess.current_persona,
                              !.inv[a].web_search_enabled = sess.session_web_search],
                           a)
     IN Commit(B1)
  /\ narr' = narr + 1
  /\ UNCHANGED <<dc, sweep_age, sid, co>>

\* handle_llm_streaming resumes after awaiting the task it cancelled on entry
HCancelled(a) ==
  /\ inv[a].pc = "cancel_wait"
  /\ Commit(HStart(Send([Bundle EXCEPT !.s.active_tts_tasks = 0],
                        "audio_stop", a, 0), a))
  /\ UNCHANGED <<narr, dc, sweep_age, sid, co>>

\* handle_llm_streaming resumes with the chat history
HAfterDb(a) ==
  /\ inv[a].pc = "db"
  /\ LET text == inv[a].text
         is_exact_duplicate ==
           /\ Clean(text) = Clean(sess.session_last_transcript)
           /\ sess.session_last_time # -1
           /\ sess.session_last_time < ExactDuplicateWindow
         B1 == [Send(Bundle, "llm_streaming_start", a, 0) EXCEPT
                  !.s.session_last_transcript = text,
                  !.s.session_last_time = 0]
         replay == \/ B1.s.session_tts_active
                   \/ B1.s.session_response_played
                   \/ B1.s.session_buffer_cleared
                   \/ B1.s.session_tts_completed
         B2 == [B1 EXCEPT !.s.session_tts_active = TRUE]
     IN Commit(
          IF is_exact_duplicate
            THEN Finally([Bundle EXCEPT !.s.session_processing = FALSE], a, FALSE)
          ELSE IF replay
            THEN PSQ([B1 EXCEPT !.s.session_processing = FALSE,
                                !.s.session_current_query = <<>>], a, "guard")
          ELSE IF ~murf.is_connected /\ ~Connecting
            THEN [B2 EXCEPT !.inv[a].pc = "ensure"]
          ELSE HStartTts(B2, a))
  /\ UNCHANGED <<narr, dc, sweep_age, sid, co>>

\* MurfWebSocketService.connect() returns or raises inside ensure_connected
HEnsure(a, ok) ==
  /\ inv[a].pc = "ensure"
  /\ Commit(
       IF ok
         THEN HStartTts([Bundle EXCEPT
                           !.m = NewContext([murf EXCEPT !.is_connected = TRUE,
                                                         !.closed = FALSE], -1)], a)
       ELSE HTtsError(Bundle, a))
  /\ UNCHANGED <<narr, dc, sweep_age, sid, co>>

\* process_tts starts: stream_text_to_audio up to the wait for the
\* voice-configuration acknowledgement
TtsStart(a) ==
  /\ inv[a].tpc = "start"
  /\ Commit(
       IF ~murf.is_connected
         THEN TaskRaise(Bundle, a)
       ELSE IF murf.closed
         THEN TaskRaise([Bundle EXCEPT !.m = NewContext(murf, a)], a)
       ELSE [Bundle EXCEPT !.m = NewContext(murf, a), !.inv[a].tpc = "vc"])
  /\ UNCHANGED <<narr, dc, sweep_age, sid, co>>

\* _send_voice_config: the acknowledgement arrives, its 3 s wait times out, or
\* the upstream socket is found closed
TtsVoiceAck(a) ==
  /\ inv[a].tpc = "vc"
  /\ Commit(IF murf.closed
              THEN TaskRaise(Bundle, a)
              ELSE [Bundle EXCEPT !.inv[a].tpc = "llm"])
  /\ UNCHANGED <<narr, dc, sweep_age, sid, co>>

\* llm_text_stream_with_save: one text chunk of the LLM stream
TtsLlmChunk(a) ==
  /\ inv[a].tpc = "llm"
  /\ inv[a].acc < MaxChunks
  /\ LET n == inv[a].acc + 1 IN
     Commit(Send([Bundle EXCEPT !.inv[a].acc = n,
                                !.s.session_responses = Buffer(a, n)],
                 "llm_streaming_chunk", a, n))
  /\ UNCHANGED <<narr, dc, sweep_age, sid, co>>

\* llm_text_stream_with_save: the LLM stream ends; the response is saved and
\* stream_text_to_audio sends the whole text with end=true
TtsLlmEnd(a) ==
  /\ inv[a].tpc = "llm"
  /\ inv[a].acc >= 1
  /\ LET B1 == Send(Bundle, "response_saved", a, 0) IN
     Commit(IF murf.closed
              THEN TaskRaise(B1, a)
              ELSE [B1 EXCEPT !.inv[a].tpc = "recv", !.inv[a].recv_age = 0])
  /\ UNCHANGED <<narr, dc, sweep_age, sid, co>>

\* _listen_for_audio_with_timeout receives an audio frame without the final
\* marker; process_tts forwards it
TtsAudio(a) ==
  /\ inv[a].tpc = "recv"
  /\ ~murf.closed
  /\ inv[a].naudio < MaxAudio
  /\ Commit(Send([Bundle EXCEPT !.inv[a].naudio = @ + 1,
                                !.inv[a].recv_age = 0],
                 "tts_audio_chunk", a, 0))
  /\ UNCHANGED <<narr, dc, sweep_age, sid, co>>

\* the final audio frame: process_tts has written it to the client socket and
\* is suspended in that send
TtsFinal(a) ==
  /\ inv[a].tpc = "recv"
  /\ ~murf.closed
  /\ Commit(Send([Bundle EXCEPT !.inv[a].tpc = "send_final"],
                 "tts_audio_chunk", a, 1))
  /\ UNCHANGED <<narr, dc, sweep_age, sid, co>>

\* process_tts resumes after sending the final chunk
TtsFinalSent(a) ==
  /\ inv[a].tpc = "send_final"
  /\ LET B1 == [Bundle EXCEPT !.s.session_response_played = TRUE,
                              !.s.session_tts_completed = TRUE,
                              !.inv[a].tpc = "done_ok"]
     IN Commit(IF sess.session_responses # NoBuffer
                 THEN [B1 EXCEPT !.s.session_responses = NoBuffer,
                                 !.s.session_buffer_cleared = TRUE]
                 ELSE B1)
  /\ UNCHANGED <<narr, dc, sweep_age, sid, co>>

\* upstream answers with an error frame
TtsErrorFrame(a) ==
  /\ inv[a].tpc = "recv"
  /\ ~murf.closed
  /\ Commit(TaskRaise(Bundle, a))
  /\ UNCHANGED <<narr, dc, sweep_age, sid, co>>

\* the 30 s receive timeout
TtsRecvTimeout(a) ==
  /\ inv[a].tpc = "recv"
  /\ ~murf.closed
  /\ inv[a].recv_age >= RecvTimeoutSeconds
  /\ LET timeout_count == inv[a].nto + 1 IN
     Commit(IF timeout_count >= MaxTimeouts
              THEN TaskRaise(Bundle, a)
              ELSE Send([Bundle EXCEPT !.inv[a].nto = timeout_count,
                                       !.inv[a].recv_age = 0],
                        "tts_timeout_warning", a, timeout_count))
  /\ UNCHANGED <<narr, dc, sweep_age, sid, co>>

\* recv() raises ConnectionClosed in _listen_for_audio_with_timeout
TtsRecvClosed(a) ==
  /\ inv[a].tpc = "recv"
  /\ murf.closed
  /\ LET audio_received == inv[a].naudio > 0 \/ inv[a].nto > 0
         B1 == [Bundle EXCEPT !.m.is_connected = FALSE]
     IN Commit(IF audio_received
                 THEN [B1 EXCEPT !.inv[a].tpc = "done_ok"]
                 ELSE TaskRaise(B1, a))
  /\ UNCHANGED <<narr, dc, sweep_age, sid, co>>

\* asyncio.wait_for(tts_task, timeout=45.0) times out
HTtsTimeout(a) ==
  /\ inv[a].pc = "wait_tts"
  /\ inv[a].tpc \in TaskLive
  /\ inv[a].tts_age >= TotalTimeoutSeconds
  /\ Commit(HTimeoutHandler([TaskGone(CancelTask(Bundle, a), a) EXCEPT
                               !.s.active_tts_tasks = 0], a))
  /\ UNCHANGED <<narr, dc, sweep_age, sid, co>>

\* asyncio.wait_for returns: the task finished, raised, or was cancelled by
\* someone else
HTtsDone(a) ==
  /\ inv[a].pc = "wait_tts"
  /\ inv[a].tpc \in TaskDone
  /\ LET B1 == [TaskGone(Bundle, a) EXCEPT !.s.active_tts_tasks = 0] IN
     Commit(CASE inv[a].tpc = "done_ok" -> HComplete(B1, a)
              [] inv[a].tpc = "done_exc" -> HTtsError(B1, a)
              [] inv[a].tpc = "cancelled" -> Finally(B1, a, TRUE))
  /\ UNCHANGED <<narr, dc, sweep_age, sid, co>>

\* tts_service.generate_speech returns (ok: with an audio url)
HFallback(a, ok) ==
  /\ inv[a].pc \in {"fb_timeout", "fb_error"}
  /\ LET B1 == Send(Bundle, "tts_fallback_audio", a, 0)
         played == [B1 EXCEPT !.s.session_response_played = TRUE]
         B2 == [played EXCEPT !.s.session_tts_completed = TRUE]
         B3 == IF B2.s.session_responses # NoBuffer
                 THEN [B2 EXCEPT !.s.session_responses = NoBuffer,
                                 !.s.session_buffer_cleared = TRUE]
                 ELSE B2
     IN Commit(
          IF inv[a].pc = "fb_timeout"
            THEN IF ok
                   THEN PSQ([B3 EXCEPT !.s.session_processing = FALSE], a, "fb_ok")
                   ELSE HTimeoutFailure(Bundle, a)
            ELSE IF ok THEN HComplete(played, a) ELSE HTotalFailure(Bundle, a))
  /\ UNCHANGED <<narr, dc, sweep_age, sid, co>>

\* the finally block resumes after awaiting the task it cancelled
HFinallyCancelled(a) ==
  /\ inv[a].pc = "fin_cancel_wait"
  /\ Commit(FinallyClear([Bundle EXCEPT !.s.active_tts_tasks = 0], a, inv[a].exc))
  /\ UNCHANGED <<narr, dc, sweep_age, sid, co>>

\* the finally block resumes from _clear_specific_context
HFinallyCleared(a) ==
  /\ inv[a].pc = "fin_clear"
  /\ LET c == inv[a].clr
         m1 == IF murf.closed
                 THEN murf
                 ELSE [murf EXCEPT
                         !.active_contexts = @ \ {c},
                         !.current_context_id = IF @ = c THEN 0 ELSE @]
     IN Commit(FinallyDeletes([Bundle EXCEPT !.m = m1], a, inv[a].exc))
  /\ UNCHANGED <<narr, dc, sweep_age, sid, co>>

\* safety_reset_stuck_sessions, run by periodic_safety_cleanup every 30 s
Sweep ==
  /\ sweep_age >= SweepPeriod
  /\ sweep_age' = 0
  /\ LET stuck == /\ sess.session_processing
                  /\ sess.session_last_time # -1
                  /\ sess.session_last_time > StuckThreshold
     IN sess' = IF stuck
                  THEN [sess EXCEPT !.session_processing = FALSE,
                                    !.session_current_query = <<>>,
                                    !.session_response_played = FALSE,
                                    !.session_buffer_cleared = FALSE]
                  ELSE sess
  /\ UNCHANGED <<murf, inv, narr, wire, starts, conn, dc, sid, co>>

\* the frames whose callback has captured current_time and not yet used it
InCallback(f) ==
  f.caller = 0 /\ f.pc \notin {"none", "short", "nokeys", "rejected", "queued", "skipped", "done"}

\* A coroutine that resumes before the clock steps.  The waits that can last
\* are those for the LLM, for upstream audio (up to its timeout) and for the
\* fallback TTS request; a task that is ready to run, the await of a finished
\* task, the history store, the connect, the 3 s acknowledgement waits, the
\* send to the client, a receive on a closed socket and the timers that are
\* due all complete within the current step.
Urgent(f) ==
  \/ f.tpc \in {"start", "vc", "send_final"}
  \/ f.pc \in {"db", "ensure", "cancel_wait", "fin_cancel_wait", "fin_clear"}
  \/ f.pc = "wait_tts" /\ f.tpc \in TaskDone
  \/ f.pc = "wait_tts" /\ f.tpc \in TaskLive /\ f.tts_age >= TotalTimeoutSeconds
  \/ f.tpc = "recv" /\ (murf.closed \/ f.recv_age >= RecvTimeoutSeconds)

\* TickSeconds pass: every timestamp the code holds is TickSeconds older
TimePasses ==
  /\ sweep_age < SweepPeriod
  /\ \A s \in Sockets : dc[s] # "wait"
  /\ \/ sess.session_last_time \notin {-1, AgeCap}
     \/ \E a \in Ids : inv[a].pc \notin {"none", "short", "nokeys", "rejected", "skipped", "done"}
  /\ sweep_age' = sweep_age + TickSeconds
  /\ sess' = [sess EXCEPT !.session_last_time = IF @ = -1 THEN -1 ELSE Older(@)]
  /\ inv' = [a \in Ids |->
               LET f == inv[a] IN
               [f EXCEPT
                  !.tts_age = IF f.pc = "wait_tts" /\ f.tpc \in TaskLive
                                THEN Older(@) ELSE @,
                  !.recv_age = IF f.tpc = "recv" THEN Older(@) ELSE @,
                  !.cb_age = IF InCallback(f) THEN Older(@) ELSE @]]
  /\ UNCHANGED <<murf, narr, wire, starts, conn, dc, sid, co>>

\* the clock steps once every coroutine that is ready to run has run
Tick ==
  /\ \A a \in Ids : ~Urgent(inv[a])
  /\ TimePasses

\* the clock steps while the history store leaves a request unanswered
StallTick ==
  /\ \E a \in Ids : inv[a].pc = "db"
  /\ \A a \in Ids : inv[a].pc = "db" \/ ~Urgent(inv[a])
  /\ TimePasses

\* the upstream TTS socket closes
MurfClose ==
  /\ murf.is_connected
  /\ ~murf.closed
  /\ murf.closes < MaxUpstreamCloses
  /\ murf' = [murf EXCEPT !.closed = TRUE, !.closes = @ + 1]
  /\ UNCHANGED <<sess, inv, narr, wire, starts, conn, dc, sweep_age, sid, co>>

\* the disconnect cleanup of audio_stream_websocket, after the task it
\* cancelled has been awaited: clear the flag and the queue
DisconnectCleanup(S) ==
  [S EXCEPT !.active_tts_tasks = 0,
            !.session_processing = FALSE,
            !.session_queues = <<>>]

\* the finally block of the handler of socket s, up to the await of the task
\* it cancels (to its end when there is no task to await)
CancelOnDisconnect(s) ==
  /\ dc[s] = "none"
  /\ LET t == sess.active_tts_tasks IN
     IF t # 0 /\ inv[t].tpc \in TaskLive
       THEN /\ inv' = [inv EXCEPT ![t].tpc = "cancelled"]
            /\ dc' = [dc EXCEPT ![s] = "wait"]
            /\ sess' = sess
       ELSE /\ inv' = inv
            /\ dc' = [dc EXCEPT ![s] = "done"]
            /\ sess' = IF t # 0 /\ inv[t].tpc = "done_exc"
                         THEN [DisconnectCleanup(sess) EXCEPT
                                 !.active_tts_tasks = sess.active_tts_tasks]
                         ELSE DisconnectCleanup(sess)

\* the finally block of the handler of socket s resumes after awaiting the
\* cancelled task
ResumeOnDisconnect(s) ==
  /\ dc[s] = "wait"
  /\ dc' = [dc EXCEPT ![s] = "done"]
  /\ sess' = IF sess.active_tts_tasks = 0
               THEN [DisconnectCleanup(sess) EXCEPT
                       !.active_tts_tasks = sess.active_tts_tasks]
               ELSE DisconnectCleanup(sess)

\* the client closes the socket: websocket.receive() raises, the send of
\* "audio_stream_complete" fails and removes the socket from
\* active_connections, and the finally block of the socket handler runs
Disconnect ==
  /\ conn' = "gone"
  /\ IF sid = "s1"
       THEN CancelOnDisconnect("this")
       ELSE /\ dc["this"] = "none"
            /\ dc' = [dc EXCEPT !["this"] = "done"]
            /\ UNCHANGED <<sess, inv>>
  /\ UNCHANGED <<murf, narr, wire, starts, sweep_age, sid, co>>

\* the disconnect cleanup resumes after awaiting the cancelled task
DisconnectResume ==
  /\ ResumeOnDisconnect("this")
  /\ UNCHANGED <<murf, inv, narr, wire, starts, conn, sweep_age, sid, co>>

\* the handler of the socket of the earlier page load ends: its finally block
\* runs for the same session id while the client's socket stays connected
StaleDisconnect ==
  /\ dc["this"] = "none"
  /\ CancelOnDisconnect("old")
  /\ UNCHANGED <<murf, narr, wire, starts, conn, sweep_age, sid, co>>

StaleDisconnectResume ==
  /\ ResumeOnDisconnect("old")
  /\ UNCHANGED <<murf, inv, narr, wire, starts, conn, sweep_age, sid, co>>

\* the client sends a session_id message naming another session: the handler
\* rebinds its session_id and calls cleanup_session_context, which returns at
\* once because session_contexts never holds an entry
Rebind ==
  /\ sid = "s1"
  /\ conn = "live"
  /\ dc["this"] = "none"
  /\ sid' = "s2"
  /\ UNCHANGED <<sess, murf, inv, narr, wire, starts, conn, dc, sweep_age, co>>

\* the steps of the callbacks, of handle_llm_streaming and of process_tts
\* that need neither the clock nor a fault of the upstream or client socket
Handler ==
  \E a \in Ids :
    \/ HCancelled(a)
    \/ HAfterDb(a)
    \/ \E ok \in BOOLEAN : HEnsure(a, ok)
    \/ TtsStart(a)
    \/ TtsVoiceAck(a)
    \/ TtsLlmChunk(a)
    \/ TtsLlmEnd(a)
    \/ TtsFinal(a)
    \/ TtsFinalSent(a)
    \/ HTtsDone(a)
    \/ HFinallyCancelled(a)
    \/ HFinallyCleared(a)

\* the clock and the timers
Clock ==
  \/ Tick
  \/ Sweep
  \/ \E a \in Ids :
       \/ TtsRecvTimeout(a)
       \/ HTtsTimeout(a)

\* the fallback TTS request that follows a timeout or a failed stream
Fallback == \E a \in Ids, ok \in BOOLEAN : HFallback(a, ok)

\* faults of the upstream TTS socket and of the client socket
Faults ==
  \/ MurfClose
  \/ Disconnect
  \/ DisconnectResume
  \/ \E a \in Ids :
       \/ TtsAudio(a)
       \/ TtsErrorFrame(a)
       \/ TtsRecvClosed(a)

\* one session with a healthy upstream and a client that stays connected
Next ==
  \/ \E u \in Utterances(narr + 1) : narr < TimedArrivals /\ Arrive(u)
  \/ Handler
  \/ Clock
  \/ Fallback

Spec == Init /\ [][Next]_vars

\* one session whose events all fall within one clock step, with the faults
\* of the two sockets
NextFaults ==
  \/ \E u \in Utterances(narr + 1) : narr < FaultArrivals /\ Arrive(u)
  \/ Handler
  \/ Fallback
  \/ Faults

SpecFaults == Init /\ [][NextFaults]_vars

\* one session whose events all fall within one clock step, with a healthy
\* upstream and a client that stays connected
NextQueue ==
  \/ \E u \in Utterances(narr + 1) : Arrive(u)
  \/ Handler

SpecQueue == Init /\ [][NextQueue]_vars

\* the TTS task waits for the first chunk of the LLM
SlowLlm(f) == f.tpc = "llm" /\ f.acc = 0

\* one session with a backlog: the client utters a second and a third
\* sentence while the first waits for a slow LLM, and a fourth one after the
\* safety sweep has reset the session.  Time passes only while an LLM is
\* slow; the upstream is healthy and answers at once, the client stays
\* connected.
NextBacklog ==
  \/ /\ \/ narr = 0
        \/ narr \in {1, 2} /\ inv[1].tpc = "llm"
        \/ /\ narr = 3
           /\ ~sess.session_processing
           /\ inv[1].pc \in {"wait_tts", "fb_timeout", "psq"}
     /\ Arrive(Fresh[narr + 1])
  \/ Handler
  \/ (\E a \in Ids : SlowLlm(inv[a])) /\ Tick
  \/ Sweep
  \/ \E a \in Ids : HTtsTimeout(a)
  \/ Fallback

SpecBacklog == Init /\ [][NextBacklog]_vars

\* one session, with the clock, whose history store may stall
NextStall ==
  \/ Next
  \/ StallTick

SpecStall == Init /\ [][NextStall]_vars

\* one session whose events all fall within one clock step, with a healthy
\* upstream, while the handler of an earlier socket of the session ends
NextReload ==
  \/ \E u \in Utterances(narr + 1) : narr < FaultArrivals /\ Arrive(u)
  \/ Handler
  \/ StaleDisconnect
  \/ StaleDisconnectResume

SpecReload == Init /\ [][NextReload]_vars

\* one session whose events all fall within one clock step, with a healthy
\* upstream and a client that may rebind its socket to another session id
\* and disconnect
NextRebind ==
  \/ \E u \in Utterances(narr + 1) : narr < FaultArrivals /\ Arrive(u)
  \/ Handler
  \/ Rebind
  \/ Disconnect
  \/ DisconnectResume

SpecRebind == Init /\ [][NextRebind]_vars

\* the client goes away without a close handshake the server has seen: the
\* socket stays in active_connections until a send on it fails or the
\* handler's receive raises
ClientBreak ==
  /\ conn = "live"
  /\ dc["this"] = "none"
  /\ conn' = "broken"
  /\ UNCHANGED <<sess, murf, inv, narr, wire, starts, dc, sweep_age, sid, co>>

\* one session whose events all fall within one clock step, with a healthy
\* upstream and a client that may go away at any moment
NextSend ==
  \/ \E u \in Utterances(narr + 1) : narr < SendArrivals /\ Arrive(u)
  \/ \E a \in Ids :
       \/ HAfterDb(a)
       \/ \E ok \in BOOLEAN : HEnsure(a, ok)
       \/ TtsStart(a)
       \/ TtsVoiceAck(a)
       \/ TtsLlmChunk(a)
       \/ TtsLlmEnd(a)
       \/ TtsAudio(a)
       \/ TtsFinal(a)
       \/ TtsFinalSent(a)
       \/ HTtsDone(a)
       \/ HFinallyCleared(a)
  \/ ClientBreak
  \/ Disconnect
  \/ DisconnectResume

SpecSend == Init /\ [][NextSend]_vars

\* the personas the client chooses from
Personas == {"developer", "teacher"}

\* history: every utterance waiting in the queue has seen one more change of
\* the persona or of the web-search flag
Updated(B) ==
  [B EXCEPT !.inv = [a \in Ids |->
                       IF B.inv[a].pc = "queued"
                         THEN [B.inv[a] EXCEPT !.updates = @ + 1]
                         ELSE B.inv[a]]]

\* the socket handler receives {"type": "persona_update", "persona": p}
PersonaUpdate(new_persona) ==
  /\ conn = "live"
  /\ dc["this"] = "none"
  /\ Len(wire[0]) < MaxUpdates
  /\ Commit(IF new_persona # sess.current_persona
              THEN Send(Updated([Bundle EXCEPT !.s.current_persona = new_persona]),
                        "persona_updated", 0, 0)
              ELSE Bundle)
  /\ UNCHANGED <<narr, dc, sweep_age, sid, co>>

\* the socket handler receives {"type": "web_search_update",
\* "web_search_enabled": v}
WebSearchUpdate(v) ==
  /\ conn = "live"
  /\ dc["this"] = "none"
  /\ sid = "s1"
  /\ Len(wire[0]) < MaxUpdates
  /\ Commit(Send(Updated([Bundle EXCEPT !.s.session_web_search = v]),
                 "web_search_updated", 0, IF v THEN 1 ELSE 0))
  /\ UNCHANGED <<narr, dc, sweep_age, sid, co>>

\* the socket handler receives {"type": "web_search_toggle", "enabled": v}
WebSearchToggle(v) ==
  /\ conn = "live"
  /\ dc["this"] = "none"
  /\ sid = "s1"
  /\ Len(wire[0]) < MaxUpdates
  /\ Commit(Send(Updated([Bundle EXCEPT !.s.session_web_search = v]),
                 "web_search_toggled", 0, IF v THEN 1 ELSE 0))
  /\ UNCHANGED <<narr, dc, sweep_age, sid, co>>

\* one session whose events all fall within one clock step, with a healthy
\* upstream and a client that changes the persona and the web-search flag
\* while its utterances are processed
NextPersona ==
  \/ \E u \in Utterances(narr + 1) : narr < TimedArrivals /\ Arrive(u)
  \/ \E a \in Ids :
       \/ HAfterDb(a)
       \/ \E ok \in BOOLEAN : HEnsure(a, ok)
       \/ TtsStart(a)
       \/ TtsVoiceAck(a)
       \/ TtsLlmChunk(a)
       \/ TtsLlmEnd(a)
       \/ TtsFinal(a)
       \/ TtsFinalSent(a)
       \/ HTtsDone(a)
       \/ HFinallyCleared(a)
  \/ \E p \in Personas : PersonaUpdate(p)
  \/ \E v \in BOOLEAN : WebSearchUpdate(v)
  \/ \E v \in BOOLEAN : WebSearchToggle(v)

SpecPersona == Init /\ [][NextPersona]_vars

\* ------------------------------------------- the TTS adapter's coroutines
\* The calls into MurfWebSocketService, one action per segment between two
\* suspensions: the connection handshake, the wait for _recv_lock, the
\* recv() under it, the wait for the LLM text.  websocket.send() completes
\* at once or raises on a closed socket.
ABundle == [m |-> murf, co |-> co]

ACommit(C) ==
  /\ murf' = C.m
  /\ co' = C.co

\* recv() entered without the lock
RecvUnlocked(C, c, at) ==
  [C EXCEPT !.co.f[c].pc = "recv", !.co.f[c].at = at]

\* async with self._recv_lock: ... await wait_for(self.websocket.recv(), ...)
\* at the acknowledgement of the voice configuration ("svc"), of a context
\* clear ("clr"), or in the audio listener ("lis").  asyncio.Lock is not
\* reentrant and serves its waiters first come, first served: the call waits
\* when the lock is held, by itself included, or when another call waits.
Acquire(C, c, at) ==
  IF C.co.recv_lock = 0 /\ C.co.waiters = <<>>
    THEN [C EXCEPT !.co.recv_lock = c, !.co.f[c].pc = "recv", !.co.f[c].at = at]
    ELSE [C EXCEPT !.co.f[c].pc = "lock", !.co.f[c].at = at,
                   !.co.waiters = Append(@, c)]

\* leaving the async with block of _recv_lock, normally or by an exception
Release(C, c) ==
  IF C.co.recv_lock = c THEN [C EXCEPT !.co.recv_lock = 0] ELSE C

\* an exception leaves _send_voice_config or the text send: connect() marks
\* the service disconnected and re-raises; stream_text_to_audio tries to
\* clear its context, which fails on the closed socket, and re-raises
Raise(C, c) ==
  LET C1 == Release(C, c) IN
  IF C1.co.f[c].call = "connect"
    THEN [C1 EXCEPT !.m.is_connected = FALSE, !.co.f[c].pc = "raised"]
    ELSE [C1 EXCEPT !.co.f[c].pc = "raised"]

\* _send_voice_config from the registration of the context to the wait for
\* the acknowledgement
Register(C, c) ==
  LET id == C.co.f[c].context_id
      C1 == [C EXCEPT !.m.current_context_id = id,
                      !.m.active_contexts = @ \cup {id}]
  IN IF C1.m.closed THEN Raise(C1, c) ELSE Acquire(C1, c, "svc")

\* uuid.uuid4(): a context id no call has used
FreshContext(C, c) ==
  [C EXCEPT !.co.uuid = @ + 1, !.co.f[c].context_id = C.co.uuid + 1]

\* _clear_all_contexts: _clear_specific_context for every context of the
\* snapshot, then the reset of the tracking, then what the caller does next:
\* at the entry of _send_voice_config the registration, after the
\* context-limit error the retry with a fresh context id
RECURSIVE ClearLoop(_, _)
ClearLoop(C, c) ==
  LET f == C.co.f[c] IN
  IF f.todo = {}
    THEN LET C1 == [C EXCEPT !.m.active_contexts = {},
                             !.m.current_context_id = 0,
                             !.co.f[c].cur = 0]
         IN IF f.site = "limit"
              THEN Register(FreshContext([C1 EXCEPT !.co.f[c].retries = @ + 1], c), c)
              ELSE Register(C1, c)
    ELSE LET x == CHOOSE y \in f.todo : \A z \in f.todo : y <= z
             C1 == [C EXCEPT !.co.f[c].todo = @ \ {x}, !.co.f[c].cur = x]
         IN IF ~C.m.is_connected \/ C.m.closed
              THEN ClearLoop(C1, c)
              ELSE Acquire(C1, c, "clr")

\* _send_voice_config up to its first suspension
send_voice_config(C, c) ==
  IF C.m.active_contexts # {}
    THEN ClearLoop([C EXCEPT !.co.f[c].todo = C.m.active_contexts,
                             !.co.f[c].site = "entry"], c)
    ELSE Register(C, c)

\* MurfWebSocketService._connecting
CoConnecting ==
  \E c \in Callers :
    co.f[c].call = "connect" /\ co.f[c].pc \in {"connecting", "lock", "recv"}

\* connect() is called
AConnect(c) ==
  /\ co.f[c].pc = "idle"
  /\ co' = [co EXCEPT !.f[c].call = "connect",
                      !.f[c].pc = IF CoConnecting \/ murf.is_connected
                                    THEN "returned" ELSE "connecting"]
  /\ UNCHANGED <<sess, murf, inv, narr, wire, starts, conn, dc, sweep_age, sid>>

\* websockets.connect() returns or raises
AConnected(c, ok) ==
  /\ co.f[c].pc = "connecting"
  /\ ACommit(
       IF ok
         THEN send_voice_config(
                FreshContext([ABundle EXCEPT !.m.is_connected = TRUE,
                                             !.m.closed = FALSE], c), c)
         ELSE [ABundle EXCEPT !.m.is_connected = FALSE,
                              !.co.f[c].pc = "raised"])
  /\ UNCHANGED <<sess, inv, narr, wire, starts, conn, dc, sweep_age, sid>>

\* stream_text_to_audio is called
AStream(c) ==
  /\ co.f[c].pc = "idle"
  /\ LET C == [ABundle EXCEPT !.co.f[c].call = "stream"] IN
     ACommit(IF ~murf.is_connected
               THEN [C EXCEPT !.co.f[c].pc = "raised"]
               ELSE send_voice_config(FreshContext(C, c), c))
  /\ UNCHANGED <<sess, inv, narr, wire, starts, conn, dc, sweep_age, sid>>

\* _recv_lock is free and the call that has waited longest for it takes it
ALockGranted(c) ==
  /\ co.f[c].pc = "lock"
  /\ co.recv_lock = 0
  /\ co.waiters # <<>> /\ Head(co.waiters) = c
  /\ co' = [co EXCEPT !.recv_lock = c, !.f[c].pc = "recv", !.waiters = Tail(@)]
  /\ UNCHANGED <<sess, murf, inv, narr, wire, starts, conn, dc, sweep_age, sid>>

\* _send_voice_config: the recv() of the acknowledgement returns a plain
\* acknowledgement or the context-limit error, times out after 3 s, or
\* raises ConnectionClosed
AConfigAck(c, r) ==
  /\ co.f[c].pc = "recv"
  /\ co.f[c].at = "svc"
  /\ (r = "closed") = murf.closed
  /\ ACommit(
       CASE r \in {"ok", "timeout"} ->
              [Release(ABundle, c) EXCEPT
                 !.co.f[c].pc = IF co.f[c].call = "connect" THEN "returned"
                                                            ELSE "text"]
         [] r = "limit" ->
              ClearLoop([ABundle EXCEPT !.co.f[c].limits = @ + 1,
                                        !.co.f[c].todo = murf.active_contexts,
                                        !.co.f[c].site = "limit"], c)
         [] OTHER -> Raise(ABundle, c))
  /\ UNCHANGED <<sess, inv, narr, wire, starts, conn, dc, sweep_age, sid>>

\* _clear_specific_context: the recv() of the acknowledgement returns, times
\* out after 3 s, or raises ConnectionClosed, which the function swallows
\* before the context is discarded
AClearAck(c, r) ==
  /\ co.f[c].pc = "recv"
  /\ co.f[c].at = "clr"
  /\ (r = "closed") = murf.closed
  /\ LET C == Release(ABundle, c)
         x == co.f[c].cur
     IN ACommit(
          IF r = "closed"
            THEN ClearLoop(C, c)
            ELSE ClearLoop(
                   [C EXCEPT !.m.active_contexts = @ \ {x},
                             !.m.current_context_id = IF @ = x THEN 0 ELSE @],
                   c))
  /\ UNCHANGED <<sess, inv, narr, wire, starts, conn, dc, sweep_age, sid>>

\* stream_text_to_audio: the text stream ends and the text is sent
AText(c) ==
  /\ co.f[c].pc = "text"
  /\ ACommit(IF murf.closed THEN Raise(ABundle, c)
                            ELSE Acquire(ABundle, c, "lis"))
  /\ UNCHANGED <<sess, inv, narr, wire, starts, conn, dc, sweep_age, sid>>

\* _listen_for_audio_with_timeout: one recv() and what process_tts does with
\* the item yielded for it.  process_tts leaves its loop at the final chunk,
\* at an error item and at the second timeout, and the generator is never
\* resumed.
AListen(c, r) ==
  /\ co.f[c].pc = "recv"
  /\ co.f[c].at = "lis"
  /\ (r = "closed") = murf.closed
  /\ r = "audio" => co.f[c].naudio < MaxAudio
  /\ LET C == Release(ABundle, c) IN
     ACommit(
       CASE r = "audio" ->
              Acquire([C EXCEPT !.co.f[c].audio_received = TRUE,
                                !.co.f[c].naudio = @ + 1], c, "lis")
         [] r \in {"final", "error"} ->
              [C EXCEPT !.co.f[c].audio_received = TRUE,
                        !.co.f[c].pc = "abandoned"]
         [] r = "timeout" ->
              IF co.f[c].timeout_count + 1 >= MaxTimeouts
                THEN [C EXCEPT !.co.f[c].audio_received = TRUE,
                               !.co.f[c].timeout_count = @ + 1,
                               !.co.f[c].pc = "abandoned"]
                ELSE Acquire([C EXCEPT !.co.f[c].audio_received = TRUE,
                                       !.co.f[c].timeout_count = @ + 1],
                             c, "lis")
         [] OTHER ->
              [C EXCEPT !.m.is_connected = FALSE,
                        !.co.f[c].pc = IF co.f[c].audio_received
                                         THEN "returned" ELSE "raised"])
  /\ UNCHANGED <<sess, inv, narr, wire, starts, conn, dc, sweep_age, sid>>

\* the task of process_tts is cancelled while stream_text_to_audio is
\* suspended: CancelledError leaves every async with block on its way out
ACancel(c) ==
  /\ co.f[c].call = "stream"
  /\ co.f[c].pc \in {"lock", "recv", "text"}
  /\ ACommit([Release(ABundle, c) EXCEPT
                !.co.f[c].pc = "cancelled",
                !.co.waiters = SelectSeq(@, LAMBDA w : w # c)])
  /\ UNCHANGED <<sess, inv, narr, wire, starts, conn, dc, sweep_age, sid>>

\* the adapter alone, under any callers and any upstream
NextAdapter ==
  \/ \E c \in Callers : AConnect(c)
  \/ \E c \in Callers, ok \in BOOLEAN : AConnected(c, ok)
  \/ \E c \in Callers : AStream(c)
  \/ \E c \in Callers : ALockGranted(c)
  \/ \E c \in Callers, r \in {"ok", "timeout", "limit", "closed"} : AConfigAck(c, r)
  \/ \E c \in Callers, r \in {"ok", "timeout", "closed"} : AClearAck(c, r)
  \/ \E c \in Callers : AText(c)
  \/ \E c \in Callers, r \in {"audio", "final", "error", "timeout", "closed"} :
       AListen(c, r)
  \/ \E c \in Callers : ACancel(c)
  \/ MurfClose

SpecAdapter == Init /\ [][NextAdapter]_vars

\* ------------------------------------------------------------- properties
\* the frames of utterance a on the wire whose type is in `types`
Frames(a, types) == {i \in 1..Len(wire[a]) : wire[a][i].type \in types}

Sent(a, type) == Frames(a, {type}) # {}

\* the frames that make the client play the response of utterance a
Playbacks(a) ==
  {i \in 1..Len(wire[a]) :
     \/ wire[a][i].type = "tts_fallback_audio"
     \/ wire[a][i].type = "tts_audio_chunk" /\ wire[a][i].x = 1}

\* the invocation is between setting session_processing and the end of its
\* LLM/TTS work (the fallback request included)
Processing(f) ==
  \/ f.pc \in {"db", "ensure", "fb_timeout", "fb_error"}
  \/ f.pc = "wait_tts" /\ f.tpc \in TaskLive

InQueue(a) == \E i \in 1..Len(sess.session_queues) : sess.session_queues[i].id = a

SameNormalized(a, b) ==
  normalize_query_text(inv[a].text) = normalize_query_text(inv[b].text)

\* C1: single playback.  For every utterance, the final audio chunks plus the
\* fallback audio frames sent to the client number at most one.
C1_SinglePlayback == \A a \in Ids : Cardinality(Playbacks(a)) <= 1

\* C2: at every moment at most one utterance of the session is in the
\* processing phase.
C2_OneProcessing == Cardinality({a \in Ids : Processing(inv[a])}) <= 1

\* C3: FIFO.  Utterances that were appended to the queue (announced with
\* query_queued; ids grow in the order of arrival, which is the order of
\* appending) have their llm_streaming_start frames in that same order.
C3_Fifo ==
  \A i, j \in 1..Len(starts) :
    (i < j /\ Sent(starts[i], "query_queued") /\ Sent(starts[j], "query_queued"))
      => starts[i] < starts[j]

\* C4: no queued utterance is silently dropped.  While the client is
\* connected, an utterance announced with query_queued is in the queue until
\* it is dequeued (to be processed, or skipped as a duplicate).
C4_NoQueuedDropped ==
  \A a \in Ids :
    (conn = "live" /\ Sent(a, "query_queued") /\ inv[a].pc = "queued")
      => InQueue(a)

\* C5: an utterance that normalizes like the in-flight utterance or like a
\* queued one is never enqueued and never processed: no two utterances with
\* the same normalized text are in flight or queued at the same time.
C5_NoDuplicateAccepted ==
  \A a, b \in Ids :
    (a # b /\ SameNormalized(a, b))
      => ~(/\ Processing(inv[a]) \/ InQueue(a)
           /\ Processing(inv[b]) \/ InQueue(b))

\* the invocation for utterance b has emitted llm_streaming_complete and
\* returned
Completed(b) == inv[b].pc = "done" /\ Sent(b, "llm_streaming_complete")

\* C6: duplicate suppression after completion.  A transcript that normalizes
\* like the previously processed utterance and arrives within the clock step
\* in which that utterance completed (less than 15 s later) is discarded at
\* its arrival, so it yields no llm_streaming_start.
C6_DuplicateAfterCompletion ==
  [][(/\ narr' = narr + 1
      /\ starts # <<>>
      /\ Completed(starts[Len(starts)])
      /\ normalize_query_text(inv'[narr'].text) =
           normalize_query_text(inv[starts[Len(starts)]].text))
       => inv'[narr'].pc = "rejected"]_vars

\* C7: context cleanup.  Once the invocation for an utterance has returned,
\* the context id allocated for the utterance is not in active_contexts.
C7_ContextCleanup ==
  \A a \in Ids : inv[a].pc = "done" => a \notin murf.active_contexts

\* C8: LLM before TTS.  No llm_streaming_chunk and no response_saved frame of
\* an utterance follows its tts_streaming_start frame.
C8_LlmBeforeTts ==
  \A a \in Ids :
    \A i, j \in 1..Len(wire[a]) :
      (i < j /\ wire[a][i].type = "tts_streaming_start")
        => wire[a][j].type \notin {"llm_streaming_chunk", "response_saved"}

\* C9: utterances do not interleave on the wire.  When the llm_streaming_start
\* of an utterance taken from the queue is emitted, the utterance whose
\* invocation dequeued it has already emitted its session_reset.
C9_NoInterleaving ==
  \A b \in Ids :
    (Sent(b, "llm_streaming_start") /\ inv[b].caller # 0)
      => Sent(inv[b].caller, "session_reset")

\* C10: a failure never leaves the session stuck.  The step in which an
\* invocation whose TTS task was cancelled finishes its cleanup leaves the
\* head of the queue in the queue, or dequeues it for processing.
C10_FailureKeepsQueue ==
  [][\A a \in Ids :
       (/\ inv[a].pc # "done"
        /\ inv'[a].pc = "done"
        /\ inv'[a].exc
        /\ conn = "live"
        /\ sess.session_queues # <<>>)
         => LET head == Head(sess.session_queues).id IN
            \/ inv'[head].pc # "queued"
            \/ \E i \in 1..Len(sess'.session_queues) :
                 sess'.session_queues[i].id = head]_vars

\* the error frames of the failure handlers
ErrorFrames == {"llm_streaming_error", "tts_streaming_error", "tts_streaming_timeout"}

\* invocation a takes a step that ends its TTS phase in failure: the connect
\* or the TTS stream raised and no fallback is attempted, or the fallback
\* request that followed an error or the 45 s timeout failed
FailStep(a) ==
  /\ conn = "live"
  /\ \/ /\ inv[a].pc = "ensure" \/ (inv[a].pc = "wait_tts" /\ inv[a].tpc = "done_exc")
        /\ inv'[a].pc \notin {"ensure", "wait_tts", "fb_error"}
     \/ /\ inv[a].pc \in {"fb_timeout", "fb_error"}
        /\ inv'[a].pc # inv[a].pc
        /\ Len(wire'[a]) > Len(wire[a])
        /\ wire'[a][Len(wire[a]) + 1].type # "tts_fallback_audio"

\* C11: a failed utterance is reported.  The step in which the TTS phase of an
\* utterance fails sends one of the error frames for it, and when the
\* invocation of an utterance with an error frame returns while the client is
\* connected, a session_reset frame of the utterance follows the error frame.
C11_ErrorThenReset ==
  [][\A a \in Ids :
       /\ FailStep(a) => Frames(a, ErrorFrames)' # {}
       /\ (conn' = "live" /\ inv[a].pc # "done" /\ inv'[a].pc = "done")
            => \A i \in Frames(a, ErrorFrames)' :
                 \E j \in Frames(a, {"session_reset"})' : i < j]_vars

\* no coroutine of utterance b is running or suspended
Idle(b) == inv[b].pc \in {"none", "short", "nokeys", "rejected", "queued", "skipped", "done"}

\* the callback of utterance a called handle_llm_streaming more than
\* StuckThreshold seconds ago and the invocation still waits for the history
Stuck(a) ==
  inv[a].pc = "db" /\ inv[a].caller = 0 /\ inv[a].cb_age > StuckThreshold

\* C12: safety reset.  A run of the sweep that finds the processing flag set
\* by an invocation that has made no progress for more than 30 s (the second
\* run of the sweep at the latest, 60 s after the flag was set), while no
\* other invocation is active, leaves the flag false.
C12_SafetyReset ==
  [][(/\ sweep_age >= SweepPeriod
      /\ sweep_age' = 0
      /\ sess.session_processing
      /\ \E a \in Ids : Stuck(a) /\ \A b \in Ids \ {a} : Idle(b))
       => ~sess'.session_processing]_vars

\* C13: disconnect cancels and releases.  Once the disconnect cleanup of the
\* socket has run, the processing flag is false, no step makes an utterance
\* enter processing or registers a TTS context, and when every invocation has
\* returned no context of an utterance is in active_contexts.
C13_DisconnectReleases ==
  [][dc'["this"] = "done" =>
       /\ ~sess'.session_processing
       /\ dc["this"] = "done" =>
            /\ \A a \in Ids : inv'[a].pc = "db" => inv[a].pc = "db"
            /\ murf'.active_contexts \subseteq murf.active_contexts
       /\ (\A a \in Ids : Idle(a))' => murf'.active_contexts \cap Ids = {}]_vars

\* C14: idempotent disconnect.  The disconnect cleanup of a socket that the
\* session no longer uses, run while the client's socket is connected, does
\* not cancel the TTS task, clear the processing flag or discard the queue of
\* the work the client's socket has started: its steps change neither the
\* session dictionaries nor any invocation.
C14_IdempotentDisconnect ==
  [][(dc'["old"] # dc["old"] /\ conn = "live") => (sess' = sess /\ inv' = inv)]_vars

\* C15: a session_id message that rebinds the socket cancels the utterance in
\* flight.  The step that rebinds the socket while the TTS task of an
\* utterance runs cancels that task, sends audio_stop, closes the context and
\* empties the buffer; and when the socket's disconnect cleanup has run after
\* a rebind, the old session has no processing flag, queue or TTS task left.
C15_RebindCancels ==
  [][/\ (sid = "s1" /\ sid' = "s2")
          => \A a \in Ids :
               (sess.active_tts_tasks = a /\ inv[a].tpc \in TaskLive)
                 => /\ inv'[a].tpc = "cancelled"
                    /\ Sent(a, "audio_stop")'
                    /\ a \notin murf'.active_contexts
                    /\ sess'.session_responses \in {NoBuffer, <<>>}
     /\ (sid' = "s2" /\ dc["this"] # "done" /\ dc'["this"] = "done")
          => /\ ~sess'.session_processing
             /\ sess'.session_queues = <<>>
             /\ sess'.active_tts_tasks = 0]_vars

\* C16: whenever the processing flag of the session is false, the response
\* buffer of the session is absent or empty.
C16_BufferEmptyWhenIdle ==
  ~sess.session_processing => sess.session_responses \in {NoBuffer, <<>>}

\* a call waits for _recv_lock while holding it: nothing but its own
\* cancellation ends the wait
SelfBlocked(c) == co.f[c].pc = "lock" /\ co.recv_lock = c

\* C17: a call of _send_voice_config whose acknowledgement carried the
\* 'Exceeded Active context limit' error has closed all tracked contexts,
\* has retried with a fresh context id exactly once, and is not blocked on
\* the way to completing.
C17_LimitRecovery ==
  \A c \in Callers :
    co.f[c].limits > 0 =>
      /\ co.f[c].retries = 1
      /\ murf.active_contexts \subseteq {co.f[c].context_id}
      /\ ~SelfBlocked(c)

\* the calls inside websocket.recv()
InRecv == {c \in Callers : co.f[c].pc = "recv"}

\* C18: at most one call is inside websocket.recv() at any time, whichever
\* of the three users of the socket it is (voice-config acknowledgement,
\* audio listener, context-clear acknowledgement), and it holds _recv_lock.
C18_RecvSerialized ==
  /\ Cardinality(InRecv) <= 1
  /\ \A c \in InRecv : co.recv_lock = c

\* one call is inside recv() while another, at a different user of the
\* socket, waits for the lock
C18_Witness ==
  \E c, d \in Callers :
    /\ co.f[c].pc = "recv" /\ co.recv_lock = c
    /\ co.f[d].pc = "lock"
    /\ co.f[c].at # co.f[d].at

\* C19: send_personal_message is safe.  Frames reach the wire only through
\* a socket that is in active_connections and stays there; a socket once
\* removed stays removed, so every later send to it is a no-op; and where
\* process_tts forwards an audio chunk, the call returns instead of raising
\* (process_tts goes on receiving), delivers the frame on a live socket,
\* sends nothing on an absent one, and on a socket whose send fails removes
\* it in the same call.
C19_SafeSend ==
  [][/\ wire' # wire => (conn = "live" /\ conn' = "live")
     /\ conn = "gone" => conn' = "gone"
     /\ \A a \in Ids :
          inv'[a].naudio = inv[a].naudio + 1 =>
            /\ inv'[a].tpc = "recv"
            /\ conn = "live" =>
                 /\ conn' = "live"
                 /\ wire'[a] = Append(wire[a], [type |-> "tts_audio_chunk", x |-> 0])
            /\ conn # "live" => (conn' = "gone" /\ wire' = wire)]_vars

\* a send has failed and removed the socket before the handler's cleanup
\* ran, and an audio chunk forwarded afterwards or by that call did not
\* reach the wire
C19_Witness ==
  /\ conn = "gone"
  /\ dc["this"] = "none"
  /\ \E a \in Ids :
       /\ inv[a].naudio > Cardinality(Frames(a, {"tts_audio_chunk"}))
       /\ inv[a].tpc = "recv"

\* handle_llm_streaming has been called for the utterance
Called(f) == f.pc \notin {"none", "short", "nokeys", "rejected", "queued", "skipped"}

\* C20: an utterance taken from the queue is passed to handle_llm_streaming
\* with the persona and the web-search flag that were in effect when it was
\* enqueued, whatever persona_update, web_search_update and
\* web_search_toggle messages arrived while it waited; an utterance processed
\* on arrival gets the values in effect at that moment, updates included.
C20_CapturedPersona ==
  [][\A a \in Ids :
       /\ (inv[a].pc = "queued" /\ Called(inv'[a])) =>
            /\ inv'[a].persona = inv[a].cap_persona
            /\ inv'[a].web_search_enabled = inv[a].cap_web
       /\ (inv[a].pc = "none" /\ Called(inv'[a])) =>
            /\ inv'[a].persona = sess.current_persona
            /\ inv'[a].web_search_enabled = sess.session_web_search]_vars

\* an utterance that waited in the queue while the persona or the
\* web-search flag changed has been passed to handle_llm_streaming, with the
\* values of its capture and not the current ones
C20_Witness ==
  \E a \in Ids :
    /\ Called(inv[a])
    /\ inv[a].caller # 0
    /\ inv[a].updates > 0
    /\ \/ inv[a].cap_persona # sess.current_persona
       \/ inv[a].cap_web # sess.session_web_search
    /\ inv[a].persona = inv[a].cap_persona
    /\ inv[a].web_search_enabled = inv[a].cap_web

\* C21: an utterance that arrives while the session is processing and is
\* not a duplicate is announced by a query_queued frame whose queue_position
\* is its 1-based position in the queue at that moment, and when it is later
\* taken from the queue and started, no other utterance of the session is
\* still in its processing phase.
C21_QueuedUntilIdle ==
  [][\A a \in Ids :
       /\ (inv[a].pc = "none" /\ inv'[a].pc = "queued" /\ conn' = "live") =>
            LET position == Len(sess.session_queues) + 1 IN
            /\ Len(sess'.session_queues) = position
            /\ sess'.session_queues[position].id = a
            /\ wire'[a] = Append(wire[a], [type |-> "query_queued", x |-> position])
       /\ (inv[a].pc = "queued" /\ Called(inv'[a])) =>
            \A b \in Ids \ {a} : ~Processing(inv'[b])]_vars

\* the 45 s wait for the TTS stream of utterance a timed out before any audio
\* frame arrived, and its invocation has ended normally
TimedOutSilent(a) ==
  /\ conn = "live"
  /\ inv[a].pc = "done"
  /\ ~inv[a].exc
  /\ Sent(a, "tts_timeout")
  /\ Frames(a, {"tts_audio_chunk"}) = {}

\* C22: when the TTS adapter produced no audio for an utterance, the client
\* has received at most 2 tts_timeout_warning frames, then a
\* tts_streaming_timeout frame, then exactly one frame that is
\* tts_fallback_audio or tts_streaming_error, and a session_reset frame.
C22_TimeoutSequence ==
  \A a \in Ids :
    TimedOutSilent(a) =>
      /\ Cardinality(Frames(a, {"tts_timeout_warning"})) <= 2
      /\ Cardinality(Frames(a, {"tts_fallback_audio", "tts_streaming_error"})) = 1
      /\ \E i \in Frames(a, {"tts_streaming_timeout"}) :
           /\ \A w \in Frames(a, {"tts_timeout_warning"}) : w < i
           /\ \A j \in Frames(a, {"tts_fallback_audio", "tts_streaming_error"}) : i < j
      /\ Sent(a, "session_reset")

\* the LLM stream of utterance a ends in this step without having yielded
\* any text: the 45 s wait expires while the stream is still silent
LlmFailsEmpty(a) ==
  /\ conn = "live"
  /\ inv[a].pc = "wait_tts"
  /\ inv[a].tpc = "llm"
  /\ inv[a].acc = 0
  /\ inv'[a].tpc = "none"

\* C23: when the LLM stream of an utterance fails or ends without any
\* accumulated text, the client receives llm_streaming_error, no
\* tts_streaming_start frame has been emitted for the utterance, and no TTS
\* context has been allocated for it.
C23_LlmFailureSkipsTts ==
  [][\A a \in Ids :
       LlmFailsEmpty(a) =>
         /\ Sent(a, "llm_streaming_error")'
         /\ ~Sent(a, "tts_streaming_start")'
         /\ a \notin murf.active_contexts]_vars

\* ------------------------------------------------- the API keys of the user
\* the server right after startup (initialize_services), once the user has
\* supplied the key of the streaming STT service only
InitKeys ==
  /\ sess = [InitSess EXCEPT !.llm_service = FALSE,
                             !.murf_websocket_service = FALSE]
  /\ murf = InitMurf
  /\ inv = [a \in Ids |-> NoFrame]
  /\ narr = 0
  /\ wire = [a \in 0..MaxArrivals |-> <<>>]
  /\ starts = <<>>
  /\ conn = "live"
  /\ dc = [w \in Sockets |-> "none"]
  /\ sweep_age = 0
  /\ sid = "s1"
  /\ co = InitCo

\* the socket handler receives {"type": "api_keys_update", ...} with keys
\* of services that are not set yet: reinitialize_services_with_user_keys
\* builds the services whose keys are given
ApiKeysUpdate(gemini_api_key, murf_api_key) ==
  /\ conn = "live"
  /\ dc["this"] = "none"
  /\ gemini_api_key \/ murf_api_key
  /\ gemini_api_key => ~sess.llm_service
  /\ murf_api_key => ~sess.murf_websocket_service
  /\ Commit(Send([Bundle EXCEPT
                    !.s.llm_service = @ \/ gemini_api_key,
                    !.s.murf_websocket_service = @ \/ murf_api_key],
                 "api_keys_updated", 0, 0))
  /\ UNCHANGED <<narr, dc, sweep_age, sid, co>>

\* one session of a user who supplies the keys while talking, with a healthy
\* upstream and a client that stays connected
NextKeys ==
  \/ \E u \in Heard(narr + 1) : narr < TimedArrivals /\ Arrive(u)
  \/ \E a \in Ids :
       \/ HAfterDb(a)
       \/ \E ok \in BOOLEAN : HEnsure(a, ok)
       \/ TtsStart(a)
       \/ TtsVoiceAck(a)
       \/ TtsLlmChunk(a)
       \/ TtsLlmEnd(a)
       \/ TtsFinal(a)
       \/ TtsFinalSent(a)
       \/ HTtsDone(a)
       \/ HFinallyCleared(a)
  \/ \E g, m \in BOOLEAN : ApiKeysUpdate(g, m)

SpecKeys == InitKeys /\ [][NextKeys]_vars

\* a final transcript arrives in this step while the LLM or the TTS service
\* is not set
ArrivesUnconfigured ==
  /\ narr' = narr + 1
  /\ ~sess.llm_service \/ ~sess.murf_websocket_service

\* the utterance that arrives in this step does not enter processing and
\* leaves the session as it was
StaysOutside ==
  /\ ~Called(inv'[narr'])
  /\ \A i \in 1..Len(sess'.session_queues) : sess'.session_queues[i].id # narr'
  /\ sess' = sess

NonWhitespace(s) == Cardinality({i \in 1..Len(s) : ~IsSpace(s[i])})

\* the final transcript that arrives in this step is dropped: it is neither
\* queued nor handed to handle_llm_streaming, no query_queued or
\* llm_streaming_start frame is sent for it, and the session's dictionaries
\* stay as they were
Discarded(a) ==
  /\ ~Called(inv'[a])
  /\ inv'[a].pc # "queued"
  /\ ~Sent(a, "query_queued")'
  /\ ~Sent(a, "llm_streaming_start")'
  /\ sess' = sess

\* C25: every final transcript with fewer than 3 non-whitespace characters
\* is discarded (not queued, not processed, session state unchanged), also
\* when its total length is 3 or more only because of inner whitespace.
C25_ShortDiscarded ==
  [][\A a \in Ids :
       (a = narr' /\ narr' = narr + 1
          /\ NonWhitespace(inv'[a].text) < MinTranscriptLen)
         => Discarded(a)]_vars

\* C26: a final transcript of two characters such as "hi" passes the length
\* filter: when it is no duplicate and the session is idle it is handed to
\* handle_llm_streaming; a transcript of one character such as "a" is
\* discarded.
C26_TwoCharsPass ==
  [][\A a \in Ids :
       (a = narr' /\ narr' = narr + 1) =>
         /\ ( /\ Len(inv'[a].text) = 2
              /\ ~KeysMissing(sess)
              /\ ~is_duplicate_query(sess, inv'[a].text)
              /\ ~sess.session_processing ) => Called(inv'[a])
         /\ Len(inv'[a].text) = 1 => Discarded(a)]_vars

\* C27: transcription_callback returns once it has decided to enqueue the
\* utterance or to start it: the callback of an utterance is never still
\* running while the TTS task of that utterance is awaited, nor while an
\* utterance drained from the queue by that invocation is being processed.
C27_CallbackReturns ==
  \A a \in Ids :
    InCallback(inv[a]) =>
      /\ inv[a].pc # "wait_tts"
      /\ \A b \in Ids : inv[b].caller = a => ~Processing(inv[b])

\* ------------------------------------------------- the sweep, second by second
\* the length of a short clock step, and the utterances of a run with it
ShortTickSeconds == 5
SweepArrivals == 1

OlderBy(age, d) == IF age + d > AgeCap THEN AgeCap ELSE age + d

\* ShortTickSeconds pass once every coroutine that is ready to run has run
ShortTick ==
  /\ \A a \in Ids : ~Urgent(inv[a])
  /\ sweep_age < SweepPeriod
  /\ \E a \in Ids : inv[a].pc \notin {"none", "short", "nokeys", "rejected", "skipped", "done"}
  /\ sweep_age' = sweep_age + ShortTickSeconds
  /\ sess' = [sess EXCEPT !.session_last_time =
                             IF @ = -1 THEN -1 ELSE OlderBy(@, ShortTickSeconds)]
  /\ inv' = [a \in Ids |->
               LET f == inv[a] IN
               [f EXCEPT
                  !.tts_age = IF f.pc = "wait_tts" /\ f.tpc \in TaskLive
                                THEN OlderBy(@, ShortTickSeconds) ELSE @,
                  !.recv_age = IF f.tpc = "recv"
                                 THEN OlderBy(@, ShortTickSeconds) ELSE @,
                  !.cb_age = IF InCallback(f)
                               THEN OlderBy(@, ShortTickSeconds) ELSE @]]
  /\ UNCHANGED <<murf, narr, wire, starts, conn, dc, sid, co>>

\* the server has been up for a while when the client connects: the sweep
\* of periodic_safety_cleanup is anywhere in its period
InitSweep ==
  /\ sess = InitSess
  /\ murf = InitMurf
  /\ inv = [a \in Ids |-> NoFrame]
  /\ narr = 0
  /\ wire = [a \in 0..MaxArrivals |-> <<>>]
  /\ starts = <<>>
  /\ conn = "live"
  /\ dc = [w \in Sockets |-> "none"]
  /\ sweep_age \in {k * ShortTickSeconds : k \in 0..5}
  /\ sid = "s1"
  /\ co = InitCo

\* one utterance of one session, with a healthy upstream, a client that
\* stays connected and a clock that steps by ShortTickSeconds
NextSweep ==
  \/ \E u \in Utterances(narr + 1) : narr < SweepArrivals /\ Arrive(u)
  \/ \E a \in Ids :
       \/ HAfterDb(a)
       \/ \E ok \in BOOLEAN : HEnsure(a, ok)
       \/ TtsStart(a)
       \/ TtsVoiceAck(a)
       \/ TtsLlmChunk(a)
       \/ TtsLlmEnd(a)
       \/ TtsFinal(a)
       \/ TtsFinalSent(a)
       \/ HTtsDone(a)
       \/ HFinallyCleared(a)
       \/ HTtsTimeout(a)
       \/ \E ok \in BOOLEAN : HFallback(a, ok)
  \/ ShortTick
  \/ Sweep

SpecSweep == InitSweep /\ [][NextSweep]_vars

\* the in-flight utterance a progresses normally: its TTS task runs (it
\* waits for the LLM, receives audio or sends it on) and handle_llm_streaming
\* has awaited it for less than its 45 s budget
WithinBudget(a) ==
  /\ inv[a].pc = "wait_tts"
  /\ inv[a].tpc \in TaskLive
  /\ inv[a].tts_age < TotalTimeoutSeconds

\* C28: the safety sweep resets a session only when it has made no progress
\* for more than 30 s: a run of the sweep while an in-flight utterance is
\* waiting on its running TTS task inside the 45 s budget does not clear the
\* processing flag and leaves the session's state unchanged.
C28_SweepSparesProgress ==
  [][(/\ sweep_age >= SweepPeriod
      /\ sweep_age' = 0
      /\ \E a \in Ids : WithinBudget(a))
       => sess' = sess]_vars

\* the processing flag is false although utterance a is in flight, its TTS
\* task still awaited: the session has been reset under it
ResetUnder(a) ==
  /\ ~sess.session_processing
  /\ inv[a].pc = "wait_tts"
  /\ inv[a].tpc \in TaskLive

\* C29: a run of the sweep leaves the queue as it is, and after the sweep
\* has reset a session whose queue is not empty, an utterance that arrives
\* does not begin processing before the queued utterances: it is not handed
\* to handle_llm_streaming while they are still in the queue.
C29_QueueFirstAfterReset ==
  [][/\ (sweep_age >= SweepPeriod /\ sweep_age' = 0)
          => sess'.session_queues = sess.session_queues
     /\ \A b \in Ids :
          (/\ b = narr' /\ narr' = narr + 1
           /\ sess.session_queues # <<>>
           /\ \E a \in Ids : ResetUnder(a))
            => ~Called(inv'[b])]_vars

\* the response buffer of the session holds nothing but text of utterance a
OwnText(buf, a) == buf # NoBuffer => \A i \in 1..Len(buf) : buf[i] = a

\* C30: the text spoken for an utterance belongs to that utterance only.
\* The response buffer is empty when handle_llm_streaming has been entered
\* for an utterance, and the buffer that the timeout handler of utterance a
\* reads for the fallback TTS request holds only text of the LLM chunks of a.
C30_OwnTextOnly ==
  [][\A a \in Ids :
       /\ (~Called(inv[a]) /\ Called(inv'[a]) /\ inv'[a].pc = "db")
            => sess'.session_responses = <<>>
       /\ (inv[a].pc = "wait_tts" /\ inv'[a].pc = "fb_timeout")
            => OwnText(sess'.session_responses, a)]_vars

\* ------------------------------------------------------- the fallback TTS
\* one session whose streaming TTS times out or fails, with the clock, an
\* upstream that may answer with an error frame and a client that stays
\* connected
NextFallback ==
  \/ \E u \in Utterances(narr + 1) : narr < SweepArrivals /\ Arrive(u)
  \/ \E a \in Ids :
       \/ HAfterDb(a)
       \/ \E ok \in BOOLEAN : HEnsure(a, ok)
       \/ TtsStart(a)
       \/ TtsVoiceAck(a)
       \/ TtsLlmChunk(a)
       \/ TtsLlmEnd(a)
       \/ TtsFinal(a)
       \/ TtsFinalSent(a)
       \/ HTtsDone(a)
       \/ HFinallyCleared(a)
       \/ TtsErrorFrame(a)
  \/ Clock
  \/ Fallback

SpecFallback == Init /\ [][NextFallback]_vars

\* handle_llm_streaming of utterance a calls tts_service.generate_speech in
\* this step
FallbackInvoked(a) == inv'[a].fallbacks > inv[a].fallbacks

\* C31: the non-streaming fallback TTS is invoked for an utterance at most
\* once, and only in a state where the session's played and cleared flags
\* are both false.
C31_SingleGuardedFallback ==
  [][\A a \in Ids :
       FallbackInvoked(a) =>
         /\ inv'[a].fallbacks = 1
         /\ ~sess.session_response_played
         /\ ~sess.session_buffer_cleared]_vars

C31_Witness ==
  \E a \in Ids :
    /\ inv[a].pc \in {"fb_timeout", "fb_error"}
    /\ inv[a].fallbacks = 1
    /\ ~sess.session_response_played
    /\ ~sess.session_buffer_cleared

\* ------------------------------------------- cancellation by a new utterance
CancelArrivals == 2

\* one session whose first utterance waits for a slow LLM until the safety
\* sweep resets the session; the next utterance arrives then and finds the
\* TTS task of the first still running.  Time passes only while an LLM is
\* slow; the upstream is healthy, the client stays connected.
NextCancel ==
  \/ /\ narr < CancelArrivals
     /\ \/ narr = 0
        \/ /\ narr > 0
           /\ ~sess.session_processing
           /\ inv[narr].pc = "wait_tts"
           /\ inv[narr].tpc \in TaskLive
           /\ \A a \in Ids \ {narr} : Idle(a)
     /\ Arrive(Fresh[narr + 1])
  \/ \E a \in Ids :
       \/ HCancelled(a)
       \/ HAfterDb(a)
       \/ HEnsure(a, TRUE)
       \/ TtsStart(a)
       \/ TtsVoiceAck(a)
       \/ TtsLlmChunk(a)
       \/ TtsLlmEnd(a)
       \/ TtsFinal(a)
       \/ TtsFinalSent(a)
       \/ HTtsDone(a)
       \/ HFinallyCleared(a)
  \/ (\E a \in Ids : SlowLlm(inv[a])) /\ Tick
  \/ Sweep

SpecCancel == Init /\ [][NextCancel]_vars

\* the frame added to the wire of utterance a in this step, if any
NewFrame(a, type) ==
  /\ Len(wire'[a]) = Len(wire[a]) + 1
  /\ wire'[a][Len(wire'[a])].type = type

\* utterance b cancelled the TTS task of utterance a when it started
Superseded(a, b) == inv[b].old_task = a

DrainArrivals == 5

DrainTexts(k) ==
  CASE k \in 1..3 -> {Fresh[k]}
    [] k = 4 -> {Respell(Fresh[2])}
    [] k = 5 -> {Fresh[4], Respell(Fresh[1])}
    [] OTHER -> {}

\* one session whose events all fall within one clock step, with a healthy
\* upstream and a client that stays connected: the client speaks again once
\* the first answer is complete, and then three more times, repeating itself,
\* before the history store has answered for the second sentence
NextDrain ==
  \/ /\ narr < DrainArrivals
     /\ narr = 1 => inv[1].pc \in {"fin_clear", "done"}
     /\ narr > 1 => inv[2].pc = "db"
     /\ \E u \in DrainTexts(narr + 1) : Arrive(u)
  \/ \E a \in Ids : HAfterDb(a) \/ HEnsure(a, TRUE) \/ TtsStart(a) \/ TtsVoiceAck(a)
       \/ TtsLlmChunk(a) \/ TtsLlmEnd(a) \/ TtsFinal(a) \/ TtsFinalSent(a)
       \/ HTtsDone(a) \/ HFinallyCleared(a)

SpecDrain == Init /\ [][NextDrain]_vars

\* the queue entry of utterance a is found a duplicate when it is popped
SkippedNow(a) == inv[a].pc = "queued" /\ inv'[a].pc = "skipped"

\* the utterances of the queue entries q[from..Len(q)], in queue order
IdsFrom(q, from) == [k \in 1..(Len(q) - from + 1) |-> q[from + k - 1].id]

\* handle_llm_streaming was entered for the utterance of frame f and has not
\* returned
Entered(f) == Called(f) /\ f.pc # "done"

\* C33: when the entry popped from the head of the queue is a duplicate at
\* that moment, its utterance gets no llm_streaming_start, then or later, and
\* the same drain goes on to the next entry: the entries behind the
\* duplicate leave the queue from the front only, each of them either dropped
\* as a duplicate too or handed to handle_llm_streaming, and those that stay
\* keep their order.
C33_DuplicateSkipped ==
  [][\A a \in Ids :
       /\ inv[a].pc = "skipped" => ~Sent(a, "llm_streaming_start")'
       /\ SkippedNow(a) =>
            LET q == sess.session_queues
                i == CHOOSE k \in 1..Len(q) : q[k].id = a
            IN /\ ~Sent(a, "llm_streaming_start")'
               /\ i < Len(q) => inv'[q[i + 1].id].pc # "queued"
               /\ \E n \in i..Len(q) :
                    /\ IdsFrom(sess'.session_queues, 1) = IdsFrom(q, n + 1)
                    /\ \A k \in (i + 1)..n :
                         \/ inv'[q[k].id].pc = "skipped"
                         \/ k = n /\ Entered(inv'[q[k].id])]_vars

\* a duplicate was dropped from the head of the queue and the entry behind it
\* was handed to handle_llm_streaming in the same drain
C33_Witness ==
  \E a, b \in Ids :
    /\ inv[a].pc = "skipped"
    /\ b > a
    /\ Entered(inv[b])
    /\ ~Sent(a, "llm_streaming_start")

\* the response_id fields of the llm_streaming_complete frames of utterance a
CompleteIds(a) == {wire[a][i].x : i \in Frames(a, {"llm_streaming_complete"})}

\* C34: every llm_streaming_complete frame of an utterance carries the
\* response_id allocated when that utterance entered handle_llm_streaming, so
\* the frames of two different utterances never carry the same response_id,
\* whether or not queued utterances were processed before the frame is sent.
C34_CompleteCarriesOwnId ==
  \A a \in Ids :
    /\ CompleteIds(a) \subseteq {a}
    /\ \A b \in Ids \ {a} : CompleteIds(a) \cap CompleteIds(b) = {}

\* ------------------------------------------------ normalize_query_text alone
\* the longest text handed to normalize_query_text
MaxTextLen == 3

\* one letter of each case, a digit, a punctuation mark, the underscore, a
\* blank and a tab
TextChars == {"a", "H", "7", "!", "_", " ", Tab}

Texts == UNION {[1..n -> TextChars] : n \in 0..MaxTextLen}

\* is_duplicate_query is about to be called with a text
InitNormalize ==
  /\ sess = InitSess
  /\ murf = InitMurf
  /\ \E t \in Texts : inv = [a \in Ids |-> IF a = 1 THEN [NoFrame EXCEPT !.text = t]
                                             ELSE NoFrame]
  /\ narr = 0
  /\ wire = [a \in 0..MaxArrivals |-> <<>>]
  /\ starts = <<>>
  /\ conn = "live"
  /\ dc = [w \in Sockets |-> "none"]
  /\ sweep_age = 0
  /\ sid = "s1"
  /\ co = InitCo

\* normalized_query = normalize_query_text(query_text)
Normalize ==
  /\ inv[1].pc = "none"
  /\ inv' = [inv EXCEPT ![1].text = normalize_query_text(@), ![1].pc = "normalized"]
  /\ UNCHANGED <<sess, murf, narr, wire, starts, conn, dc, sweep_age, sid, co>>

SpecNormalize == InitNormalize /\ [][Normalize]_vars

IsAlnum(c) == c \in {"a", "h", "H", "7"}

\* every run of blanks and tabs becomes one blank
RECURSIVE Collapse(_)
Collapse(s) ==
  IF s = <<>> THEN <<>>
  ELSE IF s[1] \in {" ", Tab}
    THEN IF Len(s) > 1 /\ s[2] \in {" ", Tab}
           THEN Collapse(Tail(s))
           ELSE <<" ">> \o Collapse(Tail(s))
  ELSE <<s[1]>> \o Collapse(Tail(s))

\* the head and the tail of a text without their blanks
RECURSIVE Trim(_)
Trim(s) ==
  IF s # <<>> /\ s[1] = " " THEN Trim(Tail(s))
  ELSE IF s # <<>> /\ s[Len(s)] = " " THEN Trim(SubSeq(s, 1, Len(s) - 1))
  ELSE s

\* lowercase; every character that is neither alphanumeric nor whitespace
\* becomes a blank; runs of whitespace collapse; the result is trimmed
ReferenceNormalization(text) ==
  LET lowered == [i \in 1..Len(text) |-> IF text[i] = "H" THEN "h" ELSE text[i]]
      spaced == [i \in 1..Len(text) |->
                   IF IsAlnum(lowered[i]) \/ lowered[i] \in {" ", Tab}
                     THEN lowered[i] ELSE " "]
  IN Trim(Collapse(spaced))

\* C35: for every text over letters of both cases, digits, punctuation, the
\* underscore and whitespace, normalize_query_text returns the reference
\* normalization of the text: lowercased, every character that is neither
\* alphanumeric nor whitespace replaced by a space, runs of whitespace
\* collapsed to one space, and trimmed.
C35_NormalizeIsReference ==
  [][Normalize => inv'[1].text = ReferenceNormalization(inv[1].text)]_vars

\* the finally block of the invocation for utterance a, pending on an await,
\* runs to its end
FinallyEnds(a) ==
  inv[a].pc \in {"fin_clear", "fin_cancel_wait"} /\ inv'[a].pc = "done"

\* utterance b entered handle_llm_streaming after a and the session's
\* response id is the one allocated for b
OwnsSession(b, a) ==
  b # a /\ Entered(inv[b]) /\ sess.session_response_ids = b

\* C36: the cleanup in the finally block of a finished or cancelled
\* utterance removes only that utterance's state.  The queue entries, and the
\* current-query marker, response buffer, playback flags and response id of a
\* later utterance that started or was queued while the cleanup was pending,
\* are the same after the cleanup as before it.
C36_CleanupOwnStateOnly ==
  [][\A a \in Ids :
       (FinallyEnds(a) /\ inv[a].caller = 0) =>
         /\ sess'.session_queues = sess.session_queues
         /\ \A b \in Ids :
              OwnsSession(b, a) =>
                /\ sess'.session_response_ids = sess.session_response_ids
                /\ sess'.session_current_query = sess.session_current_query
                /\ sess'.session_responses = sess.session_responses
                /\ sess'.session_response_played = sess.session_response_played
                /\ sess'.session_buffer_cleared = sess.session_buffer_cleared]_vars

\* -------------------------------------- two sessions on the adapter's socket
\* the audio frames the upstream sends for one context, the last one final
MaxBurst == 3

AckFrame(x) == [kind |-> "ack", context_id |-> x, final |-> FALSE]
AudioFrame(x, final) == [kind |-> "audio", context_id |-> x, final |-> final]

\* the audio frames the upstream has sent for context x
Emitted(x) == Cardinality({t \in co.up : t[1] = "audio" /\ t[2] = x})

\* the upstream answers the voice configuration or the context clear that
\* call c has sent and waits for
UpAck(c) ==
  /\ co.f[c].pc \in {"lock", "recv"}
  /\ co.f[c].at \in {"svc", "clr"}
  /\ LET x == IF co.f[c].at = "svc" THEN co.f[c].context_id ELSE co.f[c].cur
         tag == <<co.f[c].at, x, c>>
     IN /\ tag \notin co.up
        /\ co' = [co EXCEPT !.up = @ \cup {tag}, !.inbox = Append(@, AckFrame(x))]
  /\ UNCHANGED <<sess, murf, inv, narr, wire, starts, conn, dc, sweep_age, sid>>

\* the upstream sends the next audio frame for the text call c has sent on
\* its context, unless it has acknowledged a clear of that context
UpAudio(c) ==
  /\ co.f[c].call = "stream"
  /\ co.f[c].at = "lis"
  /\ LET x == co.f[c].context_id
         n == Emitted(x) + 1
     IN /\ n <= MaxBurst
        /\ \A t \in co.up : ~(t[1] = "clr" /\ t[2] = x)
        /\ co' = [co EXCEPT !.up = @ \cup {<<"audio", x, n>>},
                            !.inbox = Append(@, AudioFrame(x, n = MaxBurst))]
  /\ UNCHANGED <<sess, murf, inv, narr, wire, starts, conn, dc, sweep_age, sid>>

\* websocket.recv() returns the oldest frame on the socket to the call that
\* is inside it.  _send_voice_config and _clear_specific_context take any
\* frame without the context-limit error for their acknowledgement; the
\* listener yields every frame with "audio", which process_tts forwards to
\* the client of its session, and goes on after any other frame.
ARecv(c) ==
  /\ co.f[c].pc = "recv"
  /\ co.inbox # <<>>
  /\ ~murf.closed
  /\ LET data == Head(co.inbox)
         at == co.f[c].at
         x == co.f[c].cur
         C == Release([ABundle EXCEPT !.co.inbox = Tail(@)], c)
         S == IF data.kind = "audio"
                THEN [C EXCEPT !.co.f[c].swallowed = @ \cup {data.context_id}]
                ELSE C
         G == [C EXCEPT !.co.f[c].audio_received = TRUE,
                        !.co.f[c].got = IF data.kind = "audio"
                                          THEN @ \cup {data.context_id} ELSE @]
     IN ACommit(
          CASE at = "svc" ->
                 [S EXCEPT !.co.f[c].pc = IF co.f[c].call = "connect"
                                            THEN "returned" ELSE "text"]
            [] at = "clr" ->
                 ClearLoop([S EXCEPT !.m.active_contexts = @ \ {x},
                                     !.m.current_context_id =
                                        IF @ = x THEN 0 ELSE @], c)
            [] OTHER ->
                 IF data.final
                   THEN [G EXCEPT !.co.f[c].pc = "abandoned"]
                   ELSE Acquire(G, c, "lis"))
  /\ UNCHANGED <<sess, inv, narr, wire, starts, conn, dc, sweep_age, sid>>

\* the service is connected and tracks no context: an utterance has been
\* answered and its cleanup has cleared its context
InitShared ==
  /\ sess = InitSess
  /\ murf = [InitMurf EXCEPT !.is_connected = TRUE]
  /\ inv = [a \in Ids |-> NoFrame]
  /\ narr = 0
  /\ wire = [a \in 0..MaxArrivals |-> <<>>]
  /\ starts = <<>>
  /\ conn = "live"
  /\ dc = [w \in Sockets |-> "none"]
  /\ sweep_age = 0
  /\ sid = "s1"
  /\ co = InitCo

\* no call has asked the upstream to clear the context of call c
ContextIntact(c) ==
  /\ co.f[c].context_id \in murf.active_contexts
  /\ \A d \in Callers : ~(co.f[d].at = "clr" /\ co.f[d].cur = co.f[c].context_id)

\* the process_tts tasks of two sessions call the one MurfWebSocketService
\* of the server; the upstream answers every request; a task may be
\* cancelled, and a wait for an acknowledgement times out when the socket
\* holds no frame.  The runs in which a call sends its text on a context
\* that another call has asked to clear before are left out: what the
\* upstream does with such a text is not in the code.
NextShared ==
  \/ \E c \in Callers : AStream(c) \/ ALockGranted(c) \/ ACancel(c)
  \/ \E c \in Callers : ContextIntact(c) /\ AText(c)
  \/ \E c \in Callers : UpAck(c) \/ UpAudio(c)
  \/ \E c \in Callers : ARecv(c)
  \/ \E c \in Callers :
       co.inbox = <<>> /\ (AConfigAck(c, "timeout") \/ AClearAck(c, "timeout"))

SpecShared == InitShared /\ [][NextShared]_vars

\* C37: with two sessions streaming TTS over the adapter's one socket, every
\* audio frame forwarded to a session's client was received for the context
\* of that session's own call, and no audio frame of another call's context
\* is read where a call waits for an acknowledgement.
C37_AudioToOwnSession ==
  \A c \in Callers :
    /\ co.f[c].got \subseteq {co.f[c].context_id}
    /\ co.f[c].swallowed \subseteq {co.f[c].context_id}

\* call d has sent its text and its listener is waiting for audio
StillReceiving(d) ==
  co.f[d].call = "stream" /\ co.f[d].at = "lis" /\ co.f[d].pc \in {"lock", "recv"}

\* call c has sent {"context_id": x, "clear": true} and waits for the answer
Clearing(c, x) ==
  co.f[c].at = "clr" /\ co.f[c].pc \in {"lock", "recv"} /\ co.f[c].cur = x

\* C38: a context on which a session's call is still receiving audio is
\* never closed by the activity of another session: no other call asks the
\* upstream to clear it, neither when its _send_voice_config clears the
\* tracked contexts nor when its cleanup clears current_context_id.
C38_OwnContextStaysOpen ==
  \A c, d \in Callers :
    (c # d /\ StillReceiving(d)) => ~Clearing(c, co.f[d].context_id)

\* C39: no call of MurfWebSocketService asks for _recv_lock while it holds
\* it, so every acquisition is followed by a release and no call of
\* _send_voice_config, _clear_specific_context or the listener blocks for
\* ever.
C39_LockNotReacquired ==
  \A c \in Callers : ~(co.recv_lock = c /\ c \in {co.waiters[i] : i \in 1..Len(co.waiters)})

====
